---- MODULE Spec2Model ----
(***************************************************************************)
(* Model of the transaction recipes of modules/auto.py and of the          *)
(* SmartWallet decision engine of modules/smart.py.                        *)
(*                                                                         *)
(* Two layers share the variables:                                         *)
(*   Spec       the recipes (activityN_...) run step by step against a     *)
(*              model of the chain: a per-account mempool, the mined       *)
(*              count, the ERC-20 allowances, the token roles;             *)
(*   SpecSmart  SmartWallet.decide_next_action and the agent cycle around  *)
(*              it.                                                        *)
(* Token amounts are raw units (6 decimals), as the code computes them.    *)
(***************************************************************************)
EXTENDS Integers, Sequences, FiniteSets, TLC

\* ------------------------------------------------------------------ bounds
\* accounts of the model: the recipes are functions of (web3, wallet) and share
\* no state between accounts
Wallets == {1}
\* no account broadcasts more than MaxNonce transactions in a run of the model
MaxNonce == 2
\* the pending-transaction count each account starts with
StartNonce == [w \in Wallets |-> 4 * w]
\* a wait times out only while at most MaxPending transactions are pending
MaxPending == 1
\* values quoteSwapExactAmountIn returns
Quotes == {0, 1, 100, 101}
\* token addresses a caller passes to the recipes that take one
TokenAddrs == {"T1"}
\* policy ids read from the receipt of createPolicyWithAccounts (0: none found)
PolicyIds == {0, 7}

\* ------------------------------------------------------- program constants
\* 2**256 - 1; TLC's integers are 32-bit, so the largest of them stands for it:
\* every other amount of the model is smaller
max_uint256 == 2147483647
\* amount = int(1 * (10 ** 6)) of activity5_swap
SwapAmount == 1000000
\* amount = int(0.5 * (10 ** 6)) of activity17_batch_operations
BatchAmount == 500000
\* amount = int(10 * (10 ** 6)) of activity11_limit_order
OrderAmount == 10000000
\* amount = 1000 * 10**6 of activity15_infinity_name
NameAmount == 1000000000
\* mint_amount = int(1000 * (10 ** 6)) of activity8_mint_tokens
MintAmount == 1000000000
\* 10 ** 6: one token, in raw units
Unit == 1000000
\* the draws of random.randint(5, 10) in activity6_add_liquidity
LiquidityUnits == {5, 10}

TOKENS == {"PathUSD", "AlphaUSD", "BetaUSD", "ThetaUSD"}
Spenders == {"STABLECOIN_DEX", "FEE_MANAGER", "INFINITY_NAME"}
Pairs == TOKENS \X Spenders
\* allowances of PathUSD to the DEX an account may hold before the run
PreAllowances == {0, BatchAmount, SwapAmount, max_uint256}

None == "None"
\* no recipe has returned yet
Running == "-"
NoTx == [fn |-> "-", to |-> "-", spender |-> "-", tokenIn |-> "-", tokenOut |-> "-",
         amount |-> 0, min_out |-> 0, nonce |-> -1]
NoLocals == [act |-> "-", token |-> "-", token2 |-> "-", spender |-> "-",
             amount |-> 0, allowance |-> -1, quote |-> -1, flag |-> FALSE,
             balance |-> -1, attempt |-> 0]
\* what is observed of the current recipe run: the fate of each transaction
\* ("skipped", "noop": the recipe chose not to send it), the recipe when it
\* records one, the value it read for that choice, the transactions it
\* broadcast, the error message of a call that raised, and for the faucet the
\* requests made and the seconds slept between them, and for remove-liquidity
\* the largest position among the pairs it did not pick, and for mint, burn and
\* grant-role the token_address they were called with
NoRun == [approve |-> "none", grant |-> "none", policy |-> "none", primary |-> "none",
          act |-> "-", seen |-> -1, count |-> 0, error |-> "-",
          attempts |-> 0, waits |-> <<>>, others |-> -1, token |-> "-"]

VARIABLES
    pc,             \* pc[w]: the position of account w's recipe, "idle" between recipes
    loc,            \* loc[w]: the locals of the running recipe
    result,         \* result[w]: what the last finished recipe returned
    mempool,        \* mempool[w]: broadcast transactions not yet mined, in nonce order
    minedCount,     \* minedCount[w]: get_transaction_count(w, 'latest')
    allowances,     \* allowances[w][<<token, spender>>]: the ERC-20 allowance
    roles,          \* roles[w]: the <<token, role>> the account holds
    sent,           \* sent[w]: the transaction broadcast last, until its wait ends
    lastNonce,      \* lastNonce[w]: the nonce of the last transaction the node accepted
    prevNonce,      \* prevNonce[w]: the nonce of the accepted transaction before it
    outstanding,    \* outstanding[w]: transactions broadcast and not yet waited for
    run,            \* run[w]: the transactions of the current recipe run
    approved,       \* approved[w]: the pairs whose approval this account saw confirmed
    balances,       \* balances[w]: SmartWallet.balances, the last snapshot
    history,        \* history[w]: SmartWallet.history
    should_recover_faucet,  \* should_recover_faucet[w]: SmartWallet.should_recover_faucet
    store,          \* store[w]: the tokens load_created_tokens() holds for the address
    cycle,          \* cycle[w]: "idle", or "decided" while the chosen action runs
    decision,       \* decision[w]: what decide_next_action returned last
    drawn,          \* drawn[w]: the random draws and choices of that decision
    last_outcome,   \* last_outcome[w]: the outcome of the previous cycle
    refresh,        \* refresh[w]: what that decision read: the flag and the chain
    sweep,          \* sweep[w]: run_auto_mode's pass over the activities for wallet w
    auto            \* run_auto_mode's wallet loop: the selection and the position in it

vars == <<pc, loc, result, mempool, minedCount, allowances, roles, sent,
          lastNonce, prevNonce, outstanding, run, approved,
          balances, history, should_recover_faucet, store, cycle, decision, drawn,
          last_outcome, refresh, sweep, auto>>

progVars == <<pc, loc, result>>
chainVars == <<mempool, minedCount, allowances, roles>>
obsVars == <<sent, lastNonce, prevNonce, outstanding, run, approved>>
recipeVars == <<progVars, chainVars, obsVars>>
smartVars == <<balances, history, should_recover_faucet, store, cycle, decision, drawn,
               last_outcome, refresh>>

\* ------------------------------------------------------------- the chain
\* web3.eth.get_transaction_count(wallet_address, 'pending')
get_transaction_count(w) == minedCount[w] + Len(mempool[w])

\* web3.eth.get_transaction_count(wallet_address, 'latest')
get_transaction_count_latest(w) == minedCount[w]

\* mutant: the nonce is read at 'latest', which leaves pending transactions out
tx_nonce_latest(w) == get_transaction_count_latest(w)

\* nonce = web3.eth.get_transaction_count(wallet_address, 'pending'): the nonce
\* a recipe puts in the transaction it builds
tx_nonce(w) == get_transaction_count(w)

\* the node takes a transaction whose nonce is not yet mined: the next nonce is
\* queued, a pending nonce replaces the pending transaction
NodeAccepts(w, n) == minedCount[w] <= n /\ n <= get_transaction_count(w)

\* what the mempool keeps of a transaction: what its execution depends on
Pending(tx) == [tx EXCEPT !.min_out = 0, !.tokenOut = "-", !.nonce = -1]

PoolAfter(w, tx) ==
    IF tx.nonce = get_transaction_count(w)
    THEN Append(mempool[w], Pending(tx))
    ELSE [mempool[w] EXCEPT ![tx.nonce - minedCount[w] + 1] = Pending(tx)]

\* the spender pulls `amount` of the allowance; an unlimited allowance stays
\* unlimited
Pulled(a, amount) == IF a = max_uint256 THEN a ELSE a - amount

PullsAllowance(tx) == tx.fn \in {"swapExactAmountIn", "mintWithValidatorToken",
                                 "place", "register"}

\* whether the chain can execute tx without reverting
CanExecute(w, tx) ==
    /\ PullsAllowance(tx) => allowances[w][<<tx.tokenIn, tx.spender>>] >= tx.amount
    /\ tx.fn = "mint" => <<tx.to, "ISSUER_ROLE">> \in roles[w]

AllowancesAfter(w, tx) ==
    IF tx.fn = "approve"
    THEN [allowances[w] EXCEPT ![<<tx.to, tx.spender>>] = tx.amount]
    ELSE IF PullsAllowance(tx)
    THEN [allowances[w] EXCEPT ![<<tx.tokenIn, tx.spender>>] = Pulled(@, tx.amount)]
    ELSE allowances[w]

RolesAfter(w, tx) ==
    IF tx.fn = "grantRole" THEN roles[w] \cup {<<tx.to, tx.spender>>} ELSE roles[w]

\* a block includes the oldest pending transaction of w; it executes (ok) or
\* reverts
Included(w, ok) ==
    /\ mempool[w] # <<>>
    /\ ok => CanExecute(w, Head(mempool[w]))
    /\ allowances' = [allowances EXCEPT
                         ![w] = IF ok THEN AllowancesAfter(w, Head(mempool[w])) ELSE @]
    /\ roles' = [roles EXCEPT ![w] = IF ok THEN RolesAfter(w, Head(mempool[w])) ELSE @]
    /\ mempool' = [mempool EXCEPT ![w] = Tail(@)]
    /\ minedCount' = [minedCount EXCEPT ![w] = @ + 1]

\* a transaction whose wait has ended (timed out) lands later
Mine(w) ==
    /\ outstanding[w] = 0 \/ minedCount[w] < lastNonce[w]
    /\ \E ok \in BOOLEAN : Included(w, ok)
    /\ UNCHANGED <<progVars, obsVars>>

\* ------------------------------------------------- steps shared by recipes
\* the first step of a recipe goes on at `label`
Enter(w, label, l) ==
    /\ pc' = [pc EXCEPT ![w] = label]
    /\ loc' = [loc EXCEPT ![w] = l]
    /\ result' = [result EXCEPT ![w] = Running]

Goto(w, label, l) ==
    /\ pc' = [pc EXCEPT ![w] = label]
    /\ loc' = [loc EXCEPT ![w] = l]
    /\ UNCHANGED result

\* return value: the recipe ends
Return(w, value) ==
    /\ pc' = [pc EXCEPT ![w] = "idle"]
    /\ loc' = [loc EXCEPT ![w] = NoLocals]
    /\ result' = [result EXCEPT ![w] = value]

\* a step that touches neither the chain nor a transaction; r is the record of
\* the run after it
Quiet(w, r) ==
    /\ run' = [run EXCEPT ![w] = r]
    /\ UNCHANGED <<chainVars, sent, lastNonce, prevNonce, outstanding, approved>>

\* build_transaction, sign_transaction and send_raw_transaction of one
\* transaction, which the node accepts
send_raw_transaction(w, tx, role, r) ==
    /\ get_transaction_count(w) < StartNonce[w] + MaxNonce
    /\ NodeAccepts(w, tx.nonce)
    /\ mempool' = [mempool EXCEPT ![w] = PoolAfter(w, tx)]
    /\ sent' = [sent EXCEPT ![w] = tx]
    /\ lastNonce' = [lastNonce EXCEPT ![w] = tx.nonce]
    /\ prevNonce' = [prevNonce EXCEPT ![w] = lastNonce[w]]
    /\ outstanding' = [outstanding EXCEPT ![w] = @ + 1]
    /\ run' = [run EXCEPT ![w] = [r EXCEPT ![role] = "sent", !.count = @ + 1]]
    /\ UNCHANGED <<minedCount, allowances, roles, approved>>

\* the same calls, one of which raises (RPC error, rejected transaction): the
\* transaction is not broadcast
SendRaises(w, role, r) == Quiet(w, [r EXCEPT ![role] = "unsent"])

\* the bookkeeping of a wait that ended, with outcome "confirmed" or "failed"
Waited(w, role, outcome) ==
    /\ outstanding' = [outstanding EXCEPT ![w] = @ - 1]
    /\ run' = [run EXCEPT ![w] = [@ EXCEPT ![role] = outcome]]
    /\ approved' = [approved EXCEPT
                       ![w] = IF role = "approve" /\ outcome = "confirmed"
                              THEN @ \cup {<<sent[w].to, sent[w].spender>>}
                              ELSE @]
    /\ sent' = [sent EXCEPT ![w] = NoTx]
    /\ UNCHANGED <<lastNonce, prevNonce>>

\* sync_wait_for_tx_with_retry(web3, tx_hash) returns the receipt of the
\* transaction just sent: it is included and succeeded
WaitReturns(w, role) ==
    /\ minedCount[w] = lastNonce[w]
    /\ Included(w, TRUE)
    /\ Waited(w, role, "confirmed")

\* sync_wait_for_tx_with_retry raises: the transaction reverted, or the retry
\* budget ran out with the transaction still pending
WaitRaises(w, role) ==
    /\ \/ /\ minedCount[w] = lastNonce[w]
          /\ Included(w, FALSE)
       \/ /\ Len(mempool[w]) <= MaxPending
          /\ UNCHANGED chainVars
    /\ Waited(w, role, "failed")

approve_tx(w, token, spender, value) ==
    [NoTx EXCEPT !.fn = "approve", !.to = token, !.spender = spender,
                 !.amount = value, !.nonce = tx_nonce(w)]

\* allowance = token.functions.allowance(wallet_address, spender).call()
\* if allowance < amount: approve(spender, value), wait for it
\* `needs` is the recipe's test of the allowance it read; the recipe goes on at
\* `next`, or at `wait` when it broadcast an approval
ApproveIfNeeded(w, l, needs, value, wait, next, failure) ==
    LET a == allowances[w][<<l.token, l.spender>>]
        l2 == [l EXCEPT !.allowance = a]
    IN  \/ /\ Return(w, failure)            \* the allowance read raises
           /\ Quiet(w, NoRun)
        \/ /\ needs
           /\ send_raw_transaction(w, approve_tx(w, l.token, l.spender, value),
                                   "approve", NoRun)
           /\ Enter(w, wait, l2)
        \/ /\ needs
           /\ SendRaises(w, "approve", NoRun)
           /\ Return(w, failure)
        \/ /\ ~needs
           /\ Enter(w, next, l2)
           /\ Quiet(w, NoRun)

\* mutant: the approval is broadcast and not waited for
ApproveWait_no_wait(w, next, failure) ==
    /\ Goto(w, next, loc[w])
    /\ UNCHANGED <<chainVars, obsVars>>

\* mutant: a failed approval is swallowed (except: pass) and the recipe goes on
ApproveWait_swallow(w, next, failure) ==
    /\ \/ WaitReturns(w, "approve")
       \/ WaitRaises(w, "approve")
    /\ Goto(w, next, loc[w])

\* sync_wait_for_tx_with_retry(web3, approve_hash.hex()) inside the recipe's try
ApproveWait(w, next, failure) ==
    \/ /\ WaitReturns(w, "approve")
       /\ Goto(w, next, loc[w])
    \/ /\ WaitRaises(w, "approve")
       /\ Return(w, failure)

\* the recipe's last transaction: build, sign, send
Primary(w, tx, wait, failure) ==
    \/ /\ send_raw_transaction(w, tx, "primary", run[w])
       /\ Goto(w, wait, loc[w])
    \/ /\ SendRaises(w, "primary", run[w])
       /\ Return(w, failure)

\* sync_wait_for_tx_with_retry of the recipe's last transaction, then return
PrimaryWait(w, success, failure) ==
    \/ /\ WaitReturns(w, "primary")
       /\ Return(w, success)
    \/ /\ WaitRaises(w, "primary")
       /\ Return(w, failure)

\* ------------------------------------------------------------ the recipes
\* mutant: an allowance equal to the amount is approved again
swap_needs_approve_le(allowance, amount) == allowance <= amount

\* if allowance < amount (activity5_swap)
swap_needs_approve(allowance, amount) == allowance < amount

\* mutant: the approval is sent whatever the allowance is
batch_always_approve(allowance, amount) == TRUE

\* mutant: one percent is taken off with the division first
min_out_divide_first(quote) == quote - quote \div 100

\* min_out = (quote * 99) // 100
min_out(quote) == (quote * 99) \div 100

swap_tx(w, tokenOut, amount, quote) ==
    [NoTx EXCEPT !.fn = "swapExactAmountIn", !.to = "STABLECOIN_DEX",
                 !.spender = "STABLECOIN_DEX", !.tokenIn = "PathUSD",
                 !.tokenOut = tokenOut, !.amount = amount,
                 !.min_out = min_out(quote), !.nonce = tx_nonce(w)]

\* quote = dex.functions.quoteSwapExactAmountIn(...).call(); if quote > 0: swap
QuoteAndSwap(w, tokenOut, wait) ==
    \/ /\ Return(w, None)                   \* the quote read raises
       /\ Quiet(w, run[w])
    \/ \E quote \in Quotes :
          \/ /\ quote > 0
             /\ send_raw_transaction(w, swap_tx(w, tokenOut, loc[w].amount, quote),
                                     "primary", run[w])
             /\ Goto(w, wait, [loc[w] EXCEPT !.quote = quote])
          \/ /\ quote > 0
             /\ SendRaises(w, "primary", run[w])
             /\ Return(w, None)
          \/ /\ ~(quote > 0)                \* falls off the end, or return None
             /\ Quiet(w, [run[w] EXCEPT !.primary = "skipped", !.act = loc[w].act,
                                        !.seen = quote])
             /\ Return(w, None)

activity5_swap(w) ==
    \/ /\ pc[w] = "idle"
       /\ LET l == [NoLocals EXCEPT !.act = "swap", !.token = "PathUSD",
                                    !.spender = "STABLECOIN_DEX", !.amount = SwapAmount]
          IN  ApproveIfNeeded(w, l,
                  swap_needs_approve(allowances[w][<<l.token, l.spender>>], l.amount),
                  max_uint256, "a5_approve_wait", "a5_quote", None)
    \/ /\ pc[w] = "a5_approve_wait"
       /\ ApproveWait(w, "a5_quote", None)
    \/ /\ pc[w] = "a5_quote"
       /\ QuoteAndSwap(w, "AlphaUSD", "a5_swap_wait")
    \/ /\ pc[w] = "a5_swap_wait"
       /\ PrimaryWait(w, "tx_hash", None)

\* if allowance < amount (activity6_add_liquidity)
liquidity_needs_approve(allowance, amount) == allowance < amount

liquidity_tx(w, l) ==
    [NoTx EXCEPT !.fn = "mintWithValidatorToken", !.to = "FEE_MANAGER",
                 !.spender = "FEE_MANAGER", !.tokenIn = l.token,
                 !.tokenOut = l.token2, !.amount = l.amount, !.nonce = tx_nonce(w)]

\* mutant: each position of the list is drawn on its own
token_names_drawn == [1..Cardinality(TOKENS) -> TOKENS]

\* token_names = list(CONFIG['TOKENS'].keys()); random.shuffle(token_names): the
\* orders the list can come out in
token_names_shuffled ==
    {names \in [1..Cardinality(TOKENS) -> TOKENS] :
        \A i, j \in DOMAIN names : i # j => names[i] # names[j]}

\* token_names[0], token_names[1] of the shuffled token names, and the amount
activity6_add_liquidity(w) ==
    \/ /\ pc[w] = "idle"
       /\ \E pair \in {<<names[1], names[2]>> : names \in token_names_shuffled},
             units \in LiquidityUnits :
             /\ LET l == [NoLocals EXCEPT !.act = "add_liquidity", !.token = pair[1],
                                          !.token2 = pair[2], !.spender = "FEE_MANAGER",
                                          !.amount = units * Unit]
                IN  ApproveIfNeeded(w, l,
                        liquidity_needs_approve(allowances[w][<<l.token, l.spender>>],
                                                l.amount),
                        max_uint256, "a6_approve_wait", "a6_mint", None)
    \/ /\ pc[w] = "a6_approve_wait"
       /\ ApproveWait(w, "a6_mint", None)
    \/ /\ pc[w] = "a6_mint"
       /\ Primary(w, liquidity_tx(w, loc[w]), "a6_mint_wait", None)
    \/ /\ pc[w] = "a6_mint_wait"
       /\ PrimaryWait(w, "tx_hash", None)

\* if allowance < amount (activity11_limit_order, both branches)
order_needs_approve(allowance, amount) == allowance < amount

\* path_usd when is_bid, else the random token
order_approve_token(is_bid, random_token) == IF is_bid THEN "PathUSD" ELSE random_token

place_tx(w, l) ==
    [NoTx EXCEPT !.fn = "place", !.to = "STABLECOIN_DEX", !.spender = "STABLECOIN_DEX",
                 !.tokenIn = l.token, !.tokenOut = l.token2, !.amount = l.amount,
                 !.nonce = tx_nonce(w)]

activity11_limit_order(w) ==
    \/ /\ pc[w] = "idle"
       /\ \E random_token \in {"AlphaUSD", "BetaUSD", "ThetaUSD"}, is_bid \in BOOLEAN :
             LET l == [NoLocals EXCEPT !.act = "limit_order",
                                       !.token = order_approve_token(is_bid, random_token),
                                       !.token2 = random_token,
                                       !.spender = "STABLECOIN_DEX",
                                       !.amount = OrderAmount, !.flag = is_bid]
             IN  ApproveIfNeeded(w, l,
                     order_needs_approve(allowances[w][<<l.token, l.spender>>], l.amount),
                     max_uint256, "a11_approve_wait", "a11_place", None)
    \/ /\ pc[w] = "a11_approve_wait"
       /\ ApproveWait(w, "a11_place", None)
    \/ /\ pc[w] = "a11_place"
       /\ Primary(w, place_tx(w, loc[w]), "a11_place_wait", None)
    \/ /\ pc[w] = "a11_place_wait"
       /\ PrimaryWait(w, "tx_hash", None)

\* if allowance < amount (activity17_batch_operations)
batch_needs_approve(allowance, amount) == allowance < amount

activity17_batch_operations(w) ==
    \/ /\ pc[w] = "idle"
       /\ LET l == [NoLocals EXCEPT !.act = "batch", !.token = "PathUSD",
                                    !.spender = "STABLECOIN_DEX", !.amount = BatchAmount]
          IN  ApproveIfNeeded(w, l,
                  batch_needs_approve(allowances[w][<<l.token, l.spender>>], l.amount),
                  max_uint256, "a17_approve_wait", "a17_quote", None)
    \/ /\ pc[w] = "a17_approve_wait"
       /\ ApproveWait(w, "a17_quote", None)
    \/ /\ pc[w] = "a17_quote"
       /\ QuoteAndSwap(w, "BetaUSD", "a17_swap_wait")
    \/ /\ pc[w] = "a17_swap_wait"
       /\ PrimaryWait(w, "tx_hash", None)

\* if allowance < amount (SmartWallet.activity15_infinity_name)
name_needs_approve(allowance, amount) == allowance < amount

register_tx(w, l) ==
    [NoTx EXCEPT !.fn = "register", !.to = "INFINITY_NAME", !.spender = "INFINITY_NAME",
                 !.tokenIn = l.token, !.amount = l.amount, !.nonce = tx_nonce(w)]

activity15_infinity_name(w) ==
    \/ /\ pc[w] = "idle"
       /\ LET l == [NoLocals EXCEPT !.act = "infinity_name", !.token = "PathUSD",
                                    !.spender = "INFINITY_NAME", !.amount = NameAmount]
          IN  ApproveIfNeeded(w, l,
                  name_needs_approve(allowances[w][<<l.token, l.spender>>], l.amount),
                  max_uint256, "a15_approve_wait", "a15_register", "False")
    \/ /\ pc[w] = "a15_approve_wait"
       /\ ApproveWait(w, "a15_register", "False")
    \/ /\ pc[w] = "a15_register"
       /\ Primary(w, register_tx(w, loc[w]), "a15_register_wait", "False")
    \/ /\ pc[w] = "a15_register_wait"
       /\ PrimaryWait(w, "True", "False")

\* needs_role = not has_role; a failed read counts as a missing role
needs_role(has_role) == ~has_role

\* mutant: the recipe goes on without a token
no_token_never(token_address) == FALSE

\* if not token_address: None and the empty string
no_token(token_address) == token_address \in {None, ""}

grant_tx(w, token, role) ==
    [NoTx EXCEPT !.fn = "grantRole", !.to = token, !.spender = role,
                 !.nonce = tx_nonce(w)]

mint_tx(w, token) ==
    [NoTx EXCEPT !.fn = "mint", !.to = token, !.amount = MintAmount,
                 !.nonce = tx_nonce(w)]

\* the grant of the issuer role sits in its own try/except: pass
activity8_mint_tokens(w) ==
    \/ /\ pc[w] = "idle"
       /\ \E token_address \in TokenAddrs \cup {None, ""} :
             IF no_token(token_address)
             THEN Return(w, None)
                  /\ Quiet(w, [NoRun EXCEPT !.act = "mint", !.token = token_address])
             ELSE LET l == [NoLocals EXCEPT !.act = "mint", !.token = token_address]
                      has_role == <<token_address, "ISSUER_ROLE">> \in roles[w]
                      r == [NoRun EXCEPT !.act = "mint", !.token = token_address,
                                         !.seen = IF has_role THEN 1 ELSE 0]
                  IN  \E read_ok \in BOOLEAN :
                      LET needs == IF read_ok THEN needs_role(has_role) ELSE TRUE
                      IN  \/ /\ needs
                             /\ send_raw_transaction(
                                    w, grant_tx(w, token_address, "ISSUER_ROLE"),
                                    "grant", r)
                             /\ Enter(w, "a8_grant_wait", [l EXCEPT !.flag = needs])
                          \/ /\ needs
                             /\ SendRaises(w, "grant", r)
                             /\ Enter(w, "a8_mint", [l EXCEPT !.flag = needs])
                          \/ /\ ~needs
                             /\ Quiet(w, r)
                             /\ Enter(w, "a8_mint", [l EXCEPT !.flag = needs])
    \/ /\ pc[w] = "a8_grant_wait"
       /\ \/ WaitReturns(w, "grant")
          \/ WaitRaises(w, "grant")
       /\ Goto(w, "a8_mint", loc[w])
    \/ /\ pc[w] = "a8_mint"
       /\ Primary(w, mint_tx(w, loc[w].token), "a8_mint_wait", None)
    \/ /\ pc[w] = "a8_mint_wait"
       /\ PrimaryWait(w, "tx_hash", None)

\* int(10 * (10 ** 6)): the threshold and the burn_amount of activity9_burn_tokens
BurnAmount == 10000000
\* what token.functions.balanceOf(wallet_address).call() returns
BurnBalances == {0, 9999999, 10000000, 20000000}

\* mutant: any balance above zero is burnt from
can_burn_any(balance) == balance > 0

\* if balance >= int(10 * (10 ** 6))
can_burn(balance) == balance >= BurnAmount

burn_tx(w, token) ==
    [NoTx EXCEPT !.fn = "burn", !.to = token, !.amount = BurnAmount,
                 !.nonce = tx_nonce(w)]

activity9_burn_tokens(w) ==
    \/ /\ pc[w] = "idle"
       /\ \E token_address \in TokenAddrs \cup {None, ""} :
             LET r0 == [NoRun EXCEPT !.act = "burn", !.token = token_address]
             IN  IF no_token(token_address)
                 THEN Return(w, None) /\ Quiet(w, r0)
                 ELSE \/ /\ Return(w, None)      \* the balanceOf call raises
                         /\ Quiet(w, r0)
                      \/ \E balance \in BurnBalances :
                            LET l == [NoLocals EXCEPT !.act = "burn",
                                                      !.token = token_address,
                                                      !.amount = BurnAmount,
                                                      !.balance = balance]
                                r == [r0 EXCEPT !.seen = balance]
                            IN  IF can_burn(balance)
                                THEN \/ /\ send_raw_transaction(
                                               w, burn_tx(w, token_address), "primary", r)
                                        /\ Enter(w, "a9_burn_wait", l)
                                     \/ /\ SendRaises(w, "primary", r)
                                        /\ Return(w, None)
                                ELSE /\ Return(w, "skipped: low balance")
                                     /\ Quiet(w, [r EXCEPT !.primary = "skipped"])
    \/ /\ pc[w] = "a9_burn_wait"
       /\ PrimaryWait(w, "tx_hash", None)

\* mutant: the role is granted whatever hasRole returned
grant_always(has_role) == TRUE

\* if not has_role (activity13_grant_role)
should_grant(has_role) == ~has_role

\* a falsy token_address, a raising hasRole call, a role already held and a
\* failed grant all end at the final return None
activity13_grant_role(w) ==
    \/ /\ pc[w] = "idle"
       /\ \E token_address \in TokenAddrs \cup {None, ""} :
             LET r0 == [NoRun EXCEPT !.act = "grant_role", !.token = token_address]
             IN  IF no_token(token_address)
                 THEN Return(w, None) /\ Quiet(w, r0)
                 ELSE \/ /\ Return(w, None)      \* the hasRole call raises
                         /\ Quiet(w, r0)
                      \/ LET has_role == <<token_address, "PAUSE_ROLE">> \in roles[w]
                             l == [NoLocals EXCEPT !.act = "grant_role",
                                                   !.token = token_address,
                                                   !.flag = has_role]
                             r == [r0 EXCEPT !.seen = IF has_role THEN 1 ELSE 0]
                         IN  IF should_grant(has_role)
                             THEN \/ /\ send_raw_transaction(
                                            w, grant_tx(w, token_address, "PAUSE_ROLE"),
                                            "primary", r)
                                     /\ Enter(w, "a13_grant_wait", l)
                                  \/ /\ SendRaises(w, "primary", r)
                                     /\ Return(w, None)
                             ELSE /\ Return(w, None)
                                  /\ Quiet(w, [r EXCEPT !.primary = "noop"])
    \/ /\ pc[w] = "a13_grant_wait"
       /\ PrimaryWait(w, "tx_hash", None)

policy_tx(w) ==
    [NoTx EXCEPT !.fn = "createPolicyWithAccounts", !.to = "TIP403_REGISTRY",
                 !.nonce = tx_nonce(w)]

attach_tx(w, token, policy_id) ==
    [NoTx EXCEPT !.fn = "changeTransferPolicyId", !.to = token, !.amount = policy_id,
                 !.nonce = tx_nonce(w)]

\* SmartWallet.activity18_tip403_policies(my_tokens)
activity18_tip403_policies(w) ==
    \/ /\ pc[w] = "idle"
       /\ \E my_tokens \in SUBSET TokenAddrs :
             IF my_tokens = {}
             THEN Return(w, "False") /\ Quiet(w, NoRun)  \* random.choice raises
             ELSE \E token \in my_tokens :
                     LET l == [NoLocals EXCEPT !.act = "tip403", !.token = token]
                     IN  \/ /\ send_raw_transaction(w, policy_tx(w), "policy", NoRun)
                            /\ Enter(w, "a18_create_wait", l)
                         \/ /\ SendRaises(w, "policy", NoRun)
                            /\ Return(w, "False")
    \/ /\ pc[w] = "a18_create_wait"
       /\ \/ /\ WaitReturns(w, "policy")
             /\ \E policy_id \in PolicyIds :
                   IF policy_id = 0
                   THEN Return(w, "False")
                   ELSE Goto(w, "a18_attach", [loc[w] EXCEPT !.amount = policy_id])
          \/ /\ WaitRaises(w, "policy")
             /\ Return(w, "False")
    \/ /\ pc[w] = "a18_attach"
       /\ Primary(w, attach_tx(w, loc[w].token, loc[w].amount), "a18_attach_wait",
                  "False")
    \/ /\ pc[w] = "a18_attach_wait"
       /\ PrimaryWait(w, "True", "False")

\* min_withdraw = int(0.1 * (10 ** 6)) of activity12_remove_liquidity
MinWithdraw == 100000
\* a liquidityBalances (or getPoolId) call that raises
LpReadRaises == -1
\* what liquidityBalances returns for a pair
LpReads == {LpReadRaises, 0, 99999, 100000, 1000003}
\* the draws of random.randint(20, 50) the recipe is run with
Percents == {20, 29, 50}
\* the pairs (i, j), i < j, of the token names
PoolPairs == {<<"PathUSD", "AlphaUSD">>, <<"PathUSD", "BetaUSD">>,
              <<"PathUSD", "ThetaUSD">>, <<"AlphaUSD", "BetaUSD">>,
              <<"AlphaUSD", "ThetaUSD">>, <<"BetaUSD", "ThetaUSD">>}
\* the reads of one scan: any read for the pool of PathUSD with AlphaUSD, an
\* empty or a large position in that with BetaUSD, and the other four pools
\* unreadable
LpScenarios ==
    {[p \in PoolPairs |->
         IF p = <<"PathUSD", "AlphaUSD">> THEN x
         ELSE IF p = <<"PathUSD", "BetaUSD">> THEN y ELSE LpReadRaises] :
       x \in LpReads, y \in {0, 1000003}}

\* mutant: a pool with a position of zero is kept as well
has_position_or_zero(lp_balance) == lp_balance >= 0

\* if lp_balance > 0
has_position(lp_balance) == lp_balance > 0

\* pools_with_balance after the scan: a read that raises is skipped (continue)
pools_with_balance(reads) ==
    {p \in PoolPairs : reads[p] # LpReadRaises /\ has_position(reads[p])}

\* int(lp_balance * withdraw_percent) with withdraw_percent = percent / 100 a
\* float: the product of an exact multiple of 1/100 may fall one unit in the
\* last place below the integer it stands for, and int() then gives one less
float_product(lp_balance, percent, below) ==
    (lp_balance * percent) \div 100 - below

\* mutant: the amount is not raised to the minimum
withdraw_amount_no_minimum(lp_balance, percent, below) ==
    LET amount == float_product(lp_balance, percent, below)
    IN  IF amount <= lp_balance THEN amount ELSE lp_balance

\* withdraw_amount = min(max(int(lp_balance * withdraw_percent), min_withdraw),
\*                       lp_balance)
withdraw_amount(lp_balance, percent, below) ==
    LET amount == float_product(lp_balance, percent, below)
        raised == IF amount >= MinWithdraw THEN amount ELSE MinWithdraw
    IN  IF raised <= lp_balance THEN raised ELSE lp_balance

\* return "skipped: no lp"
skip_no_lp == "skipped: no lp"

\* mutant: a picked position below the minimum is given up only when no pair
\* holds the minimum
below_minimum_everywhere(lp_balance, reads) ==
    \A p \in PoolPairs : reads[p] < MinWithdraw

\* if lp_balance < min_withdraw, asked of the picked pair
below_minimum(lp_balance, reads) == lp_balance < MinWithdraw

withdraw_tx(w, l) ==
    [NoTx EXCEPT !.fn = "burn", !.to = "FEE_MANAGER", !.tokenIn = l.token,
                 !.tokenOut = l.token2, !.amount = l.amount, !.nonce = tx_nonce(w)]

activity12_remove_liquidity(w) ==
    \/ /\ pc[w] = "idle"
       /\ LET r0 == [NoRun EXCEPT !.act = "remove_liquidity"]
          IN  \/ /\ Return(w, None)         \* a call outside the scan raises
                 /\ Quiet(w, r0)
              \/ \E reads \in LpScenarios :
                    \* except Exception: continue, for a pair whose read raises
                    LET r1 == IF \E p \in PoolPairs : reads[p] = LpReadRaises
                              THEN [r0 EXCEPT !.error = "liquidityBalances raised"]
                              ELSE r0
                    IN
                    IF pools_with_balance(reads) = {}
                    THEN /\ Return(w, skip_no_lp)
                         /\ Quiet(w, [r1 EXCEPT !.primary = "skipped", !.seen = 0])
                    ELSE \E selected_pool \in pools_with_balance(reads) :
                            LET lp_balance == reads[selected_pool]
                                rest == {reads[p] : p \in PoolPairs \ {selected_pool}}
                            IN  IF below_minimum(lp_balance, reads)
                                THEN /\ Return(w, "skipped: low balance")
                                     /\ Quiet(w, [r1 EXCEPT
                                            !.primary = "skipped", !.seen = lp_balance,
                                            !.others = CHOOSE x \in rest :
                                                          \A y \in rest : y <= x])
                                ELSE \E percent \in Percents, below \in 0..1 :
                                        /\ below = 1 => (lp_balance * percent) % 100 = 0
                                        /\ LET l == [NoLocals EXCEPT
                                                        !.act = "remove_liquidity",
                                                        !.token = selected_pool[1],
                                                        !.token2 = selected_pool[2],
                                                        !.amount = withdraw_amount(
                                                            lp_balance, percent, below),
                                                        !.balance = lp_balance]
                                               r == [r1 EXCEPT !.seen = lp_balance]
                                           IN  \/ /\ send_raw_transaction(
                                                         w, withdraw_tx(w, l), "primary", r)
                                                  /\ Enter(w, "a12_burn_wait", l)
                                               \/ /\ SendRaises(w, "primary", r)
                                                  /\ Return(w, None)
    \/ /\ pc[w] = "a12_burn_wait"
       /\ PrimaryWait(w, "tx_hash", None)

\* ------------------------------------------------- faucet and token transfer
\* activity2_faucet(web3, wallet, max_retries=3)
max_retries == 3
\* int(0.01 * (10 ** 6)) of activity3_send_tokens
SendAmount == 10000
\* messages of the exceptions an RPC call raises
RpcErrors == {"Connection reset by peer", "502 Server Error: Bad Gateway",
              "insufficient funds for gas", "execution reverted"}

\* the entries of the list of activity2_faucet that occur in str(e).lower()
markers_in(error) ==
    CASE error = "Connection reset by peer" -> {"connection"}
      [] error = "502 Server Error: Bad Gateway" -> {"502", "bad gateway"}
      [] OTHER -> {}

\* any(x in error_str for x in [...])
is_retryable(error) ==
    markers_in(error) \cap {"timeout", "connection", "refused", "502", "503",
                            "bad gateway", "timed out", "read timed out"} # {}

\* mutant: any error is retried while attempts are left
should_retry_any(attempt, error) == attempt < max_retries - 1

\* if attempt < max_retries - 1 and is_retryable
should_retry(attempt, error) == attempt < max_retries - 1 /\ is_retryable(error)

\* mutant: the wait is computed from the zero-based attempt
wait_time_zero_based(attempt) == attempt * 5

\* wait_time = (attempt + 1) * 5
wait_time(attempt) == (attempt + 1) * 5

\* for attempt in range(max_retries): request, and sleep before the next one
activity2_faucet(w) ==
    \/ /\ pc[w] = "idle"
       /\ Enter(w, "a2_request", [NoLocals EXCEPT !.act = "faucet", !.attempt = 0])
       /\ Quiet(w, [NoRun EXCEPT !.act = "faucet"])
    \/ /\ pc[w] = "a2_request"
       /\ LET r == [run[w] EXCEPT !.attempts = @ + 1]
          IN  \/ /\ Return(w, "faucet")
                 /\ Quiet(w, [r EXCEPT !.primary = "confirmed"])
              \/ \E e \in RpcErrors :
                    IF should_retry(loc[w].attempt, e)
                    THEN /\ Goto(w, "a2_sleep", loc[w])
                         /\ Quiet(w, [r EXCEPT !.error = e])
                    ELSE /\ Return(w, None)
                         /\ Quiet(w, [r EXCEPT !.error = e, !.primary = "failed"])
    \/ /\ pc[w] = "a2_sleep"
       /\ Quiet(w, [run[w] EXCEPT !.waits = Append(@, wait_time(loc[w].attempt))])
       /\ IF loc[w].attempt + 1 < max_retries
          THEN Goto(w, "a2_request", [loc[w] EXCEPT !.attempt = @ + 1])
          ELSE Return(w, None)

transfer_tx(w) ==
    [NoTx EXCEPT !.fn = "transfer", !.to = "PathUSD", !.amount = SendAmount,
                 !.nonce = tx_nonce(w)]

activity3_send_tokens(w) ==
    \/ /\ pc[w] = "idle"
       /\ LET l == [NoLocals EXCEPT !.act = "send_tokens", !.token = "PathUSD",
                                    !.amount = SendAmount]
              r == [NoRun EXCEPT !.act = "send_tokens", !.attempts = 1]
          IN  \/ /\ send_raw_transaction(w, transfer_tx(w), "primary", r)
                 /\ Enter(w, "a3_wait", l)
              \/ \E e \in RpcErrors :
                    /\ SendRaises(w, "primary", [r EXCEPT !.error = e])
                    /\ Return(w, None)
    \/ /\ pc[w] = "a3_wait"
       /\ PrimaryWait(w, "tx_hash", None)

\* ----------------------------------------------------- the decision engine
\* balances the chain returns to update_balances: token balances in raw units
\* (6 decimals), the native balance in units of 10**12 wei, so that 2000000 is
\* 2.0 ETH
NativeBalances == {1500000, 2000000}
PathBalances == {0, 10000000, 20000000, 2000000000}
AlphaBalances == {0, 1000000, 5000000, 5000001}
BetaBalances == {0, 1000000, 5000000}
ChainBalances == [ETH : NativeBalances, PathUSD : PathBalances,
                  AlphaUSD : AlphaBalances, BetaUSD : BetaBalances]
\* values of random.random(), in hundredths
Draws == {4, 70}
NoDraw == -1
\* history['created_tokens'] holds at most MaxCreated tokens in the model
MaxCreated == 2
\* outcomes of an executed action, as the agent cycle classifies them
Outcomes == {"ok", "failed", "insufficient_funds"}

\* eth_balance / 10**18 (the model counts the native balance in 10**12 wei) and
\* bal / 10**6: the quotient, as its whole part and its millionths
from_wei(eth_balance) == [whole |-> eth_balance \div 10^6, frac |-> eth_balance % 10^6]
from_units(bal) == [whole |-> bal \div 10^6, frac |-> bal % 10^6]

\* x < n and x > n for a quotient x and an integer n
lt(x, n) == x.whole < n
gt(x, n) == x.whole > n \/ (x.whole = n /\ x.frac > 0)

Zero == [whole |-> 0, frac |-> 0]
\* self.balances = {}: every balances.get(symbol, 0) is 0
EmptyBalances == [ETH |-> Zero, PathUSD |-> Zero, AlphaUSD |-> Zero, BetaUSD |-> Zero]
NoDraws == [p2 |-> NoDraw, p4 |-> NoDraw, p5 |-> NoDraw, p6 |-> NoDraw,
            p7 |-> NoDraw, p8 |-> NoDraw, is_mint |-> NoDraw, pick |-> NoDraw]
\* no refresh made: the recovery flag as read, the balances the chain returned
\* and the read that raised (0: none)
NoRefresh == [flag |-> FALSE, fail_at |-> 0,
              chain |-> [ETH |-> 0, PathUSD |-> 0, AlphaUSD |-> 0, BetaUSD |-> 0]]
NoAction == [name |-> None, fn |-> None, token |-> None]

Action(name, fn) == [name |-> name, fn |-> fn, token |-> None]

\* mutant: a failed refresh leaves the native balance as it was read or kept
update_balances_keep(old, chain, fail_at) ==
    LET order == <<"ETH", "PathUSD", "AlphaUSD", "BetaUSD">>
    IN  [sym \in DOMAIN old |->
            LET i == CHOOSE k \in 1..4 : order[k] = sym
            IN  IF fail_at = 0 \/ i < fail_at
                THEN IF sym = "ETH" THEN from_wei(chain[sym])
                                    ELSE from_units(chain[sym])
                ELSE old[sym]]

\* mutant: a failed refresh forgets every balance
update_balances_reset(old, chain, fail_at) ==
    IF fail_at = 0
    THEN [sym \in DOMAIN old |->
             IF sym = "ETH" THEN from_wei(chain[sym]) ELSE from_units(chain[sym])]
    ELSE [sym \in DOMAIN old |-> Zero]

\* SmartWallet.update_balances: the reads in the order ETH, PathUSD, AlphaUSD,
\* BetaUSD, ThetaUSD; fail_at is the read that raises (0: none). The values read
\* before it are kept, the others stay as they were, and ETH is set to 0
update_balances(old, chain, fail_at) ==
    LET order == <<"ETH", "PathUSD", "AlphaUSD", "BetaUSD">>
        new == [sym \in DOMAIN old |->
                   LET i == CHOOSE k \in 1..4 : order[k] = sym
                   IN  IF fail_at = 0 \/ i < fail_at
                       THEN IF sym = "ETH" THEN from_wei(chain[sym])
                                           ELSE from_units(chain[sym])
                       ELSE old[sym]]
    IN  IF fail_at = 0 THEN new ELSE [new EXCEPT !.ETH = Zero]

\* return {...}: decide_next_action ends with one action descriptor
ReturnAction(w, b, d, action) ==
    /\ balances' = [balances EXCEPT ![w] = b]
    /\ drawn' = [drawn EXCEPT ![w] = d]
    /\ decision' = [decision EXCEPT ![w] = action]
    /\ cycle' = [cycle EXCEPT ![w] = "decided"]

\* mutant: the fallback list holds an action of a priority rule as well
options_with_swap ==
    <<Action("Deploy Contract", "activity1_deploy"),
      Action("NFT Mint", "activity14_nft"),
      Action("Send Dust", "activity3_send_tokens"),
      Action("Limit Order", "activity11_limit_order"),
      Action("Retriever NFT", "activity16_retriever_nft"),
      Action("Batch Operations", "activity17_batch_operations"),
      Action("Swap PathUSD -> Stable", "activity5_swap")>>

\* options = [...]: the fallback list
options ==
    <<Action("Deploy Contract", "activity1_deploy"),
      Action("NFT Mint", "activity14_nft"),
      Action("Send Dust", "activity3_send_tokens"),
      Action("Limit Order", "activity11_limit_order"),
      Action("Retriever NFT", "activity16_retriever_nft"),
      Action("Batch Operations", "activity17_batch_operations")>>

\* mutant: the function falls off its end and returns None
Fallback_none(w, b, d) == ReturnAction(w, b, d, NoAction)

\* mutant: the returned option does not depend on the recorded choice
Fallback_unseeded(w, b, d) ==
    \E i \in 1..Len(options), j \in 1..Len(options) :
       ReturnAction(w, b, [d EXCEPT !.pick = i], options[j])

\* choice = random.choice(options); return choice
Fallback(w, b, d) ==
    \E i \in 1..Len(options) : ReturnAction(w, b, [d EXCEPT !.pick = i], options[i])

\* Priority 8: mint or burn one of the tokens created in this session
Priority8(w, b, d) ==
    IF history[w].created_tokens # <<>>
    THEN \E x \in Draws :
            IF x < 40
            THEN \E i \in 1..Len(history[w].created_tokens), y \in Draws :
                    LET token == history[w].created_tokens[i]
                        d2 == [d EXCEPT !.p8 = x, !.is_mint = y, !.pick = i]
                    IN  IF y < 60
                        THEN ReturnAction(w, b, d2,
                                 [name |-> "Mint Own Token",
                                  fn |-> "activity8_mint_tokens", token |-> token])
                        ELSE ReturnAction(w, b, d2,
                                 [name |-> "Burn Own Token",
                                  fn |-> "activity9_burn_tokens", token |-> token])
            ELSE Fallback(w, b, [d EXCEPT !.p8 = x])
    ELSE Fallback(w, b, d)

\* Priority 7: analytics
Priority7(w, b, d) ==
    \E x \in Draws :
       IF x < 5
       THEN ReturnAction(w, b, [d EXCEPT !.p7 = x],
                         Action("Analytics & Stats", "activity_analytics"))
       ELSE Priority8(w, b, [d EXCEPT !.p7 = x])

\* mutant: the policy rule does not look at the stored tokens
Priority6_unguarded(w, b, d) ==
    \E x \in Draws :
       IF x < 10
       THEN ReturnAction(w, b, [d EXCEPT !.p6 = x],
                         Action("TIP-403 Policy", "activity18_tip403_policies"))
       ELSE Priority7(w, b, [d EXCEPT !.p6 = x])

\* Priority 6: a policy for one of the tokens load_created_tokens() returns
Priority6(w, b, d) ==
    IF store[w] # {}
    THEN \E x \in Draws :
            IF x < 10
            THEN ReturnAction(w, b, [d EXCEPT !.p6 = x],
                              Action("TIP-403 Policy", "activity18_tip403_policies"))
            ELSE Priority7(w, b, [d EXCEPT !.p6 = x])
    ELSE Priority7(w, b, d)

\* Priority 5: add liquidity with PathUSD and AlphaUSD at hand
Priority5(w, b, d) ==
    IF gt(b.PathUSD, 5) /\ gt(b.AlphaUSD, 5)
    THEN \E x \in Draws :
            IF x < 30
            THEN ReturnAction(w, b, [d EXCEPT !.p5 = x],
                              Action("Add Liquidity", "activity6_add_liquidity"))
            ELSE Priority6(w, b, [d EXCEPT !.p5 = x])
    ELSE Priority6(w, b, d)

\* Priority 4: infinity name
Priority4(w, b, d) ==
    IF gt(b.PathUSD, 1000)
    THEN \E x \in Draws :
            IF x < 10
            THEN ReturnAction(w, b, [d EXCEPT !.p4 = x],
                              Action("Infinity Name Register", "activity15_infinity_name"))
            ELSE Priority5(w, b, [d EXCEPT !.p4 = x])
    ELSE Priority5(w, b, d)

\* mutant: both peer balances have to be low
swap_rule_both(path, alpha, beta) == gt(path, 10) /\ lt(alpha, 5) /\ lt(beta, 5)

\* if path > 10 and (alpha < 5 or beta < 5)
swap_rule(path, alpha, beta) == gt(path, 10) /\ (lt(alpha, 5) \/ lt(beta, 5))

\* mutant: the swap rule is looked at after the infinity-name rule
Priority3_after_4(w, b, d) ==
    LET Swap(d2) == IF swap_rule(b.PathUSD, b.AlphaUSD, b.BetaUSD)
                    THEN ReturnAction(w, b, d2,
                                      Action("Swap PathUSD -> Stable", "activity5_swap"))
                    ELSE Priority5(w, b, d2)
    IN  IF gt(b.PathUSD, 1000)
        THEN \E x \in Draws :
                IF x < 10
                THEN ReturnAction(w, b, [d EXCEPT !.p4 = x],
                         Action("Infinity Name Register", "activity15_infinity_name"))
                ELSE Swap([d EXCEPT !.p4 = x])
        ELSE Swap(d)

\* Priority 3: swap, without a draw
Priority3(w, b, d) ==
    IF swap_rule(b.PathUSD, b.AlphaUSD, b.BetaUSD)
    THEN ReturnAction(w, b, d, Action("Swap PathUSD -> Stable", "activity5_swap"))
    ELSE Priority4(w, b, d)

\* Priority 2: create a token
Priority2(w, b, d) ==
    \E x \in Draws :
       IF x < 15
       THEN ReturnAction(w, b, [d EXCEPT !.p2 = x],
                         Action("Deploy New Token", "_wrap_create_token"))
       ELSE Priority3(w, b, [d EXCEPT !.p2 = x])

\* mutant: the faucet rule answers only a native balance below 1.0
Priority1_below_one(w, b) ==
    IF lt(b.ETH, 1)
    THEN ReturnAction(w, b, NoDraws,
                      Action("Faucet Claim (Low Balance)", "activity2_faucet"))
    ELSE Priority2(w, b, NoDraws)

\* Priority 1: faucet when eth < 2.0
Priority1(w, b) ==
    IF lt(b.ETH, 2)
    THEN ReturnAction(w, b, NoDraws,
                      Action("Faucet Claim (Low Balance)", "activity2_faucet"))
    ELSE Priority2(w, b, NoDraws)

\* mutant: the recovery flag is not looked at
recovery_edge_off(flag) == FALSE

\* if self.should_recover_faucet
recovery_edge(flag) == flag

\* mutant: the recovery edge leaves the flag set
decide_next_action_sticky(w) ==
    /\ cycle[w] = "idle"
    /\ IF recovery_edge(should_recover_faucet[w])
       THEN /\ UNCHANGED should_recover_faucet
            /\ refresh' = [refresh EXCEPT
                               ![w] = [NoRefresh EXCEPT !.flag = should_recover_faucet[w]]]
            /\ ReturnAction(w, balances[w], NoDraws,
                            Action("Faucet Claim (Recovery)", "activity2_faucet"))
       ELSE /\ UNCHANGED should_recover_faucet
            /\ \E chain \in ChainBalances, fail_at \in 0..5 :
                  /\ refresh' = [refresh EXCEPT
                                     ![w] = [flag |-> should_recover_faucet[w],
                                             fail_at |-> fail_at, chain |-> chain]]
                  /\ Priority1(w, update_balances(balances[w], chain, fail_at))
    /\ UNCHANGED <<history, store, last_outcome, recipeVars>>

\* SmartWallet.decide_next_action
decide_next_action(w) ==
    /\ cycle[w] = "idle"
    /\ IF recovery_edge(should_recover_faucet[w])
       THEN /\ should_recover_faucet' = [should_recover_faucet EXCEPT ![w] = FALSE]
            /\ refresh' = [refresh EXCEPT
                               ![w] = [NoRefresh EXCEPT !.flag = should_recover_faucet[w]]]
            /\ ReturnAction(w, balances[w], NoDraws,
                            Action("Faucet Claim (Recovery)", "activity2_faucet"))
       ELSE /\ UNCHANGED should_recover_faucet
            /\ \E chain \in ChainBalances, fail_at \in 0..5 :
                  /\ refresh' = [refresh EXCEPT
                                     ![w] = [flag |-> should_recover_faucet[w],
                                             fail_at |-> fail_at, chain |-> chain]]
                  /\ Priority1(w, update_balances(balances[w], chain, fail_at))
    /\ UNCHANGED <<history, store, last_outcome, recipeVars>>

\* mutant: whatever activity4_create_stablecoin returned is recorded
wrap_create_token_any(w, token) ==
    /\ history' = [history EXCEPT ![w].created_tokens = Append(@, token)]
    /\ store' = [store EXCEPT ![w] = @ \cup {token}]

\* SmartWallet._wrap_create_token: token is what activity4_create_stablecoin
\* returned
wrap_create_token(w, token) ==
    IF token # None
    THEN /\ history' = [history EXCEPT ![w].created_tokens = Append(@, token)]
         /\ store' = [store EXCEPT ![w] = @ \cup {token}]
    ELSE UNCHANGED <<history, store>>

\* the agent cycle around decide_next_action: it runs the chosen action and
\* records the outcome; an insufficient-funds outcome sets the recovery flag
run_cycle(w) ==
    /\ cycle[w] = "decided"
    /\ \E o \in Outcomes :
          /\ last_outcome' = [last_outcome EXCEPT ![w] = o]
          /\ should_recover_faucet' =
                 [should_recover_faucet EXCEPT
                     ![w] = IF o = "insufficient_funds" THEN TRUE ELSE @]
          /\ IF decision[w].fn = "_wrap_create_token"
             THEN \E token \in TokenAddrs \cup {None} :
                     /\ token # None <=> o = "ok"
                     /\ token # None => Len(history[w].created_tokens) < MaxCreated
                     /\ wrap_create_token(w, token)
             ELSE UNCHANGED <<history, store>>
    /\ cycle' = [cycle EXCEPT ![w] = "idle"]
    /\ decision' = [decision EXCEPT ![w] = NoAction]
    /\ drawn' = [drawn EXCEPT ![w] = NoDraws]
    /\ refresh' = [refresh EXCEPT ![w] = NoRefresh]
    /\ UNCHANGED <<balances, recipeVars>>

\* ------------------------------------------------------------ the fixed sweep
\* the ids of the list `activities` of run_auto_mode
activities == <<1, 2, 3, 4, 5, 6, 7, 10, 11, 12, 14, 16, 17>>
\* a receipt holds at most MaxLogs logs
MaxLogs == 2
\* the orders random.shuffle produces in the model: the rotations of the list
\* and its reversal; order[i] is the position the i-th entry comes from
Shuffles ==
    LET n == Len(activities)
    IN  {[i \in 1..n |-> ((i + k - 1) % n) + 1] : k \in 0..(n - 1)}
           \cup {[i \in 1..n |-> n + 1 - i]}
NoSweep == [activities |-> <<>>, shuffled |-> <<>>, j |-> 0, shuffles |-> 0,
            done |-> <<>>, created_token |-> None, returned |-> "-", bonus |-> 0,
            failed |-> FALSE, logs |-> <<>>]
\* len(private_keys)
TotalWallets == 3
\* the parts of a selection, as int() reads them: a number, a range
\* "start-end", a part that is not a number (the ValueError is caught) and a
\* part with '-' that int() or the unpacking rejects (the error is not caught)
Parts ==
    {[kind |-> "single", start |-> n, end |-> n] : n \in {0, 2, TotalWallets + 1}}
       \cup {[kind |-> "range", start |-> r[1], end |-> r[2]] :
                r \in {<<1, 2>>, <<2, TotalWallets>>, <<0, 1>>,
                       <<2, TotalWallets + 1>>, <<2, 1>>}}
       \cup {[kind |-> "word", start |-> 0, end |-> 0],
             [kind |-> "bad_range", start |-> 0, end |-> 0]}
\* what the user types: 'all', or one or two parts separated by a comma
Selections ==
    {[all |-> TRUE, parts |-> <<>>]}
       \cup {[all |-> FALSE, parts |-> <<p>>] : p \in Parts}
       \cup {[all |-> FALSE, parts |-> <<p, q>>] : p \in Parts, q \in Parts}
NoAuto == [pc |-> "select", selection |-> [all |-> FALSE, parts |-> <<>>],
           selected_indices |-> <<>>, i |-> 0, order |-> <<>>]
\* what an activity called by run_auto_mode does: it returns a value that is
\* true or false in `if result:`, or it raises
ActivityResults == {"tx", None, "raises"}

\* mutant: a range is cut down to the wallets there are
part_numbers_clipped(part, total_wallets) ==
    IF part.kind = "range"
    THEN {n \in 1..total_wallets : part.start <= n /\ n <= part.end}
    ELSE IF part.kind = "single" /\ part.start >= 1 /\ part.start <= total_wallets
         THEN {part.start}
         ELSE {}

\* the body of `for part in parts`: the numbers the part adds to `selected`
part_numbers(part, total_wallets) ==
    IF part.kind = "range"
    THEN IF part.start < 1 \/ part.end > total_wallets \/ part.start > part.end
         THEN {}
         ELSE part.start..part.end
    ELSE IF part.kind = "single"
         THEN IF part.start < 1 \/ part.start > total_wallets
              THEN {}
              ELSE {part.start}
         ELSE {}

\* sorted(...) of a set of integers
RECURSIVE sorted(_)
sorted(numbers) ==
    IF numbers = {}
    THEN <<>>
    ELSE LET least == CHOOSE n \in numbers : \A m \in numbers : n <= m
         IN  <<least>> \o sorted(numbers \ {least})

\* parse_wallet_selection: the error that leaves the function, or the list
parse_wallet_selection(parts, total_wallets) ==
    IF \E k \in DOMAIN parts : parts[k].kind = "bad_range"
    THEN [error |-> "ValueError", indices |-> <<>>]
    ELSE [error |-> None,
          indices |-> sorted({n - 1 : n \in UNION {part_numbers(parts[k], total_wallets) :
                                                     k \in DOMAIN parts}})]

\* run_auto_mode up to the wallet loop: the selection is read and parsed
select_wallets ==
    /\ auto.pc = "select"
    /\ \E selection \in Selections :
          LET parsed == IF selection.all
                        THEN [error |-> None,
                              indices |-> [k \in 1..TotalWallets |-> k - 1]]
                        ELSE parse_wallet_selection(selection.parts, TotalWallets)
              chosen == [auto EXCEPT !.selection = selection,
                                     !.selected_indices = parsed.indices]
          IN  auto' = IF parsed.error # None
                      THEN [chosen EXCEPT !.pc = "raised"]
                      ELSE IF Len(parsed.indices) = 0
                           THEN [chosen EXCEPT !.pc = "no_wallets"]
                           ELSE [chosen EXCEPT !.pc = "wallets", !.i = 1]
    /\ UNCHANGED sweep

\* mutant: the list passed in is shuffled itself
shuffle_array_in_place(array, order) ==
    [array |-> [i \in DOMAIN array |-> array[order[i]]],
     arr |-> [i \in DOMAIN array |-> array[order[i]]]]

\* arr = array.copy(); random.shuffle(arr); return arr: the list passed in as
\* it is after the call, and the list returned
shuffle_array(array, order) ==
    [array |-> array, arr |-> [i \in DOMAIN array |-> array[order[i]]]]

\* mutant: the last log that decodes
token_of_receipt_last(logs) ==
    IF \E i \in DOMAIN logs : logs[i] # None
    THEN logs[CHOOSE i \in DOMAIN logs :
                 logs[i] # None /\ \A k \in (i + 1)..Len(logs) : logs[k] = None]
    ELSE None

\* the loop over receipt['logs'] of activity4_create_stablecoin: a log is the
\* token its TokenCreated event names, or None when process_log raises on it;
\* the first log that decodes is returned, None when there is none
token_of_receipt(logs) ==
    IF \E i \in DOMAIN logs : logs[i] # None
    THEN logs[CHOOSE i \in DOMAIN logs :
                 logs[i] # None /\ \A k \in 1..(i - 1) : logs[k] = None]
    ELSE None

\* mutant: the await hands the value on
await_passes(value) == value

\* created_token = await activity['fn'](): the function returns a str or None,
\* neither of which can be awaited: the await raises TypeError
await(value) == "TypeError"

\* mutant: an activity that raises ends the wallet's loop
not_handled(s, id, raised) ==
    IF raised
    THEN [s EXCEPT !.j = Len(s.shuffled) + 1, !.done = Append(@, id)]
    ELSE [s EXCEPT !.j = @ + 1, !.done = Append(@, id)]

\* try: ... except Exception as error: inside `for j in range(len(shuffled))`:
\* the loop goes on with the next j after the activity, raised or not
handled(s, id, raised) == [s EXCEPT !.j = @ + 1, !.done = Append(@, id)]

\* run_auto_mode for one wallet: the shuffle, then the activities in the
\* shuffled order, each inside try/except
run_auto_mode(w) ==
    /\ auto.pc = "wallets"
    /\ auto.selected_indices[auto.i] = w - 1
    /\ UNCHANGED auto
    /\ \/ /\ sweep[w].j = 0
          /\ \E order \in Shuffles :
                LET r == shuffle_array(activities, order)
                IN  sweep' = [sweep EXCEPT ![w] = [NoSweep EXCEPT
                                 !.activities = r.array, !.shuffled = r.arr, !.j = 1,
                                 !.shuffles = sweep[w].shuffles + 1]]
       \/ /\ sweep[w].j \in 1..Len(sweep[w].shuffled)
          /\ LET id == sweep[w].shuffled[sweep[w].j]
             IN  IF id = 4
                 THEN \E logs \in UNION {[1..n -> TokenAddrs \cup {"T2", None}] :
                                            n \in 0..MaxLogs},
                         failed \in BOOLEAN :
                         (failed => logs = <<>>) /\
                         LET token == IF failed THEN None ELSE token_of_receipt(logs)
                             value == await(token)
                             called == [handled(sweep[w], id, value = "TypeError")
                                           EXCEPT !.returned = token, !.failed = failed,
                                                  !.logs = logs]
                         IN  IF value = "TypeError"
                             THEN sweep' = [sweep EXCEPT ![w] = called]
                             ELSE IF value # None
                                  THEN sweep' = [sweep EXCEPT
                                           ![w] = [called EXCEPT !.created_token = value]]
                                  ELSE \* mint, burn and grant role, each called with None
                                       sweep' = [sweep EXCEPT
                                           ![w] = [called EXCEPT !.created_token = value,
                                                                 !.bonus = @ + 3]]
                 ELSE \E outcome \in ActivityResults :
                         sweep' = [sweep EXCEPT
                                      ![w] = handled(sweep[w], id, outcome = "raises")]

\* the end of the body of `for i in range(len(test_wallets))`: the wallet is
\* finished and the loop goes to the next selected index; the pass of a
\* wallet outside Wallets is one step
next_wallet ==
    /\ auto.pc = "wallets"
    /\ \A w \in Wallets :
          auto.selected_indices[auto.i] = w - 1 =>
             sweep[w].j = Len(activities) + 1
    /\ auto' = [auto EXCEPT
                   !.order = Append(@, auto.selected_indices[auto.i]),
                   !.i = @ + 1,
                   !.pc = IF auto.i = Len(auto.selected_indices)
                          THEN "finished" ELSE "wallets"]
    /\ UNCHANGED sweep

\* ------------------------------------------------------------ specification
\* the chain before the run: nothing approved and no role held, or one
\* allowance of PathUSD to the DEX, or the issuer role of one token
InitChain ==
    {[a |-> [p \in Pairs |-> IF p = <<"PathUSD", "STABLECOIN_DEX">> THEN v ELSE 0],
      r |-> {}] : v \in PreAllowances}
    \cup {[a |-> [p \in Pairs |-> 0], r |-> {<<t, "ISSUER_ROLE">>}] : t \in TokenAddrs}

\* SmartWallet.__init__
InitWallet ==
    /\ balances = [w \in Wallets |-> EmptyBalances]
    /\ history = [w \in Wallets |-> [created_tokens |-> <<>>, last_action |-> None]]
    /\ should_recover_faucet = [w \in Wallets |-> FALSE]
    /\ cycle = [w \in Wallets |-> "idle"]
    /\ decision = [w \in Wallets |-> NoAction]
    /\ drawn = [w \in Wallets |-> NoDraws]
    /\ last_outcome = [w \in Wallets |-> "none"]
    /\ refresh = [w \in Wallets |-> NoRefresh]

InitRecipes ==
    /\ pc = [w \in Wallets |-> "idle"]
    /\ loc = [w \in Wallets |-> NoLocals]
    /\ result = [w \in Wallets |-> Running]
    /\ mempool = [w \in Wallets |-> <<>>]
    /\ minedCount = StartNonce
    /\ \E c \in [Wallets -> InitChain] :
          /\ allowances = [w \in Wallets |-> c[w].a]
          /\ roles = [w \in Wallets |-> c[w].r]
    /\ sent = [w \in Wallets |-> NoTx]
    /\ lastNonce = [w \in Wallets |-> -1]
    /\ prevNonce = [w \in Wallets |-> -1]
    /\ outstanding = [w \in Wallets |-> 0]
    /\ run = [w \in Wallets |-> NoRun]
    /\ approved = [w \in Wallets |-> {}]

Init ==
    /\ InitRecipes
    /\ InitWallet
    /\ store = [w \in Wallets |-> {}]
    /\ sweep = [w \in Wallets |-> NoSweep]
    /\ auto = NoAuto

Next ==
    \E w \in Wallets :
       \/ Mine(w)
       \/ activity5_swap(w)
       \/ activity6_add_liquidity(w)
       \/ activity8_mint_tokens(w)
       \/ activity9_burn_tokens(w)
       \/ activity11_limit_order(w)
       \/ activity12_remove_liquidity(w)
       \/ activity13_grant_role(w)
       \/ activity15_infinity_name(w)
       \/ activity17_batch_operations(w)
       \/ activity18_tip403_policies(w)

Spec == Init /\ [][Next /\ UNCHANGED <<smartVars, sweep, auto>>]_vars

\* the agents: the tokens of earlier sessions may be in the store
InitSmart ==
    /\ InitWallet
    /\ store \in [Wallets -> SUBSET TokenAddrs]
    /\ InitRecipes
    /\ \A w \in Wallets : \A p \in Pairs : allowances[w][p] = 0
    /\ \A w \in Wallets : roles[w] = {}
    /\ sweep = [w \in Wallets |-> NoSweep]
    /\ auto = NoAuto

NextSmart ==
    \E w \in Wallets :
       \/ decide_next_action(w)
       \/ run_cycle(w)

SpecSmart == InitSmart /\ [][NextSmart /\ UNCHANGED <<sweep, auto>>]_vars

\* the faucet and the transfer; the call of activity2_faucet runs to its end
NextFaucet ==
    \E w \in Wallets :
       \/ Mine(w)
       \/ activity2_faucet(w)
       \/ activity3_send_tokens(w)

SpecFaucet ==
    /\ Init
    /\ [][NextFaucet /\ UNCHANGED <<smartVars, sweep, auto>>]_vars
    /\ \A w \in Wallets : WF_vars(activity2_faucet(w) /\ UNCHANGED <<smartVars, sweep, auto>>)

\* the fixed sweep of run_auto_mode over the activities of each wallet
NextSweep ==
    \/ select_wallets
    \/ \E w \in Wallets : run_auto_mode(w)
    \/ next_wallet

SpecSweep == Init /\ [][NextSweep /\ UNCHANGED <<recipeVars, smartVars>>]_vars

\* run_auto_mode: result = activity['fn'](); if result: "Done" else: "Failed"
report(value) == IF value \in {None, "False"} THEN "Failed" ELSE "Done"

\* ------------------------------------------------------------------ claims
\* the recipes with the approve-if-needed step
ApproveRecipes == {"swap", "add_liquidity", "limit_order", "batch", "infinity_name"}

\* C1: the nonces of consecutive transactions an account broadcasts increase by
\* exactly one, within a recipe and from one recipe to the next
C1_NoncesIncreaseByOne ==
    \A w \in Wallets :
       /\ lastNonce[w] # -1 => lastNonce[w] >= StartNonce[w]
       /\ prevNonce[w] # -1 => lastNonce[w] = prevNonce[w] + 1

\* C1 witness: the second transaction of a two-transaction recipe is broadcast
C1_Witness ==
    \E w \in Wallets :
       /\ run[w].grant = "confirmed"
       /\ run[w].primary = "sent"
       /\ prevNonce[w] # -1

\* C2: an account has at most one transaction broadcast and not yet waited
\* for, and none between two recipes
C2_OneOutstanding ==
    \A w \in Wallets :
       /\ outstanding[w] <= 1
       /\ pc[w] = "idle" => outstanding[w] = 0

\* C2 witness: the order of a limit order is broadcast after its approval was
\* waited for
C2_Witness ==
    \E w \in Wallets :
       /\ pc[w] = "a11_place_wait"
       /\ run[w].approve = "confirmed"
       /\ outstanding[w] = 1

\* the priority rules of the decision, by position: whether the rule's
\* predicate holds on the balances, history and store the decision used
Holds(w, i) ==
    LET b == balances[w]
    IN  CASE i = 1 -> lt(b.ETH, 2)
          [] i = 2 -> TRUE
          [] i = 3 -> gt(b.PathUSD, 10) /\ (lt(b.AlphaUSD, 5) \/ lt(b.BetaUSD, 5))
          [] i = 4 -> gt(b.PathUSD, 1000)
          [] i = 5 -> gt(b.PathUSD, 5) /\ gt(b.AlphaUSD, 5)
          [] i = 6 -> store[w] # {}
          [] i = 7 -> TRUE
          [] i = 8 -> history[w].created_tokens # <<>>

\* the draw of rule i in the decision (rules 1 and 3 have none) and the
\* probability it is compared with, in hundredths
DrawOf(w, i) ==
    CASE i = 2 -> drawn[w].p2 [] i = 4 -> drawn[w].p4 [] i = 5 -> drawn[w].p5
      [] i = 6 -> drawn[w].p6 [] i = 7 -> drawn[w].p7 [] i = 8 -> drawn[w].p8
      [] OTHER -> NoDraw

Probability(i) ==
    CASE i = 2 -> 15 [] i = 4 -> 10 [] i = 5 -> 30 [] i = 6 -> 10 [] i = 7 -> 5
      [] i = 8 -> 40 [] OTHER -> 100

Gated(i) == i \in {2, 4, 5, 6, 7, 8}

\* rule i is satisfied and triggered
Fires(w, i) ==
    /\ Holds(w, i)
    /\ Gated(i) => DrawOf(w, i) # NoDraw /\ DrawOf(w, i) < Probability(i)

\* the rule an action name belongs to; 9 is the fallback, 0 the recovery edge
RuleOf(name) ==
    CASE name = "Faucet Claim (Recovery)" -> 0
      [] name = "Faucet Claim (Low Balance)" -> 1
      [] name = "Deploy New Token" -> 2
      [] name = "Swap PathUSD -> Stable" -> 3
      [] name = "Infinity Name Register" -> 4
      [] name = "Add Liquidity" -> 5
      [] name = "TIP-403 Policy" -> 6
      [] name = "Analytics & Stats" -> 7
      [] name \in {"Mint Own Token", "Burn Own Token"} -> 8
      [] OTHER -> 9

FallbackNames == {"Deploy Contract", "NFT Mint", "Send Dust", "Limit Order",
                  "Retriever NFT", "Batch Operations"}

\* the functions the actions call, by action name
FnOf(name) ==
    CASE name \in {"Faucet Claim (Recovery)", "Faucet Claim (Low Balance)"}
              -> "activity2_faucet"
      [] name = "Deploy New Token" -> "_wrap_create_token"
      [] name = "Swap PathUSD -> Stable" -> "activity5_swap"
      [] name = "Infinity Name Register" -> "activity15_infinity_name"
      [] name = "Add Liquidity" -> "activity6_add_liquidity"
      [] name = "TIP-403 Policy" -> "activity18_tip403_policies"
      [] name = "Analytics & Stats" -> "activity_analytics"
      [] name = "Mint Own Token" -> "activity8_mint_tokens"
      [] name = "Burn Own Token" -> "activity9_burn_tokens"
      [] name = "Deploy Contract" -> "activity1_deploy"
      [] name = "NFT Mint" -> "activity14_nft"
      [] name = "Send Dust" -> "activity3_send_tokens"
      [] name = "Limit Order" -> "activity11_limit_order"
      [] name = "Retriever NFT" -> "activity16_retriever_nft"
      [] name = "Batch Operations" -> "activity17_batch_operations"
      [] OTHER -> None

\* C3: when the previous cycle ended with an insufficient-funds outcome, the
\* decision is the faucet claim of the recovery edge, made without a draw and
\* without a look at the balances
C3_RecoveryFirst ==
    \A w \in Wallets :
       (cycle[w] = "decided" /\ last_outcome[w] = "insufficient_funds") =>
          /\ decision[w].name = "Faucet Claim (Recovery)"
          /\ decision[w].fn = "activity2_faucet"
          /\ drawn[w] = NoDraws

\* C3 witness: the recovery edge is taken with a native balance of 2.0, which
\* the low-balance rule does not answer
C3_Witness ==
    \E w \in Wallets :
       /\ cycle[w] = "decided"
       /\ last_outcome[w] = "insufficient_funds"
       /\ decision[w].name = "Faucet Claim (Recovery)"
       /\ ~lt(balances[w].ETH, 2)

\* C4: the action returned by the priority rules is that of the first rule, in
\* the order 1..8, that is satisfied and triggered: that rule fires, no rule
\* before it fires, and every satisfied rule before it made its draw
C4_FirstRuleWins ==
    \A w \in Wallets :
       (cycle[w] = "decided" /\ RuleOf(decision[w].name) # 0) =>
          LET r == RuleOf(decision[w].name)
          IN  /\ r <= 8 => Fires(w, r)
              /\ \A i \in 1..(r - 1) :
                    /\ ~Fires(w, i)
                    /\ (Holds(w, i) /\ Gated(i)) => DrawOf(w, i) # NoDraw
              /\ \A i \in (r + 1)..8 : DrawOf(w, i) = NoDraw

\* C4 witness: rule 5 is returned while rules 2 and 4 were satisfied and their
\* draws failed
C4_Witness ==
    \E w \in Wallets :
       /\ cycle[w] = "decided"
       /\ decision[w].name = "Add Liquidity"
       /\ Holds(w, 4)
       /\ drawn[w].p2 = 70
       /\ drawn[w].p4 = 70
       /\ drawn[w].p5 = 4

\* C5: every decision returns one action descriptor, the name and the function
\* of one action of the catalogue, and an idle agent can always decide
C5_ExactlyOneAction ==
    \A w \in Wallets :
       /\ cycle[w] = "decided" =>
             /\ decision[w] # NoAction
             /\ FnOf(decision[w].name) # None
             /\ decision[w].fn = FnOf(decision[w].name)
             /\ decision[w].token # None <=> RuleOf(decision[w].name) = 8
       /\ cycle[w] = "idle" => ENABLED decide_next_action(w)

\* C5 witness: a decision of the rules that burns a created token
C5_Witness ==
    \E w \in Wallets :
       /\ cycle[w] = "decided"
       /\ decision[w].name = "Burn Own Token"
       /\ decision[w].token \in TokenAddrs

\* C6: a decision off the recovery edge in which no rule fires returns an
\* action of the fallback set, an action of the fallback set is returned only
\* then, and an agent off the recovery edge can get each of the six
C6_FallbackSet ==
    \A w \in Wallets :
       /\ (cycle[w] = "decided" /\ RuleOf(decision[w].name) # 0) =>
             ((\A i \in 1..8 : ~Fires(w, i)) <=> decision[w].name \in FallbackNames)
       /\ (cycle[w] = "idle" /\ ~should_recover_faucet[w]) =>
             \A n \in FallbackNames :
                ENABLED (decide_next_action(w) /\ decision'[w].name = n)

\* C6 witness: no rule fired, with rules 2, 7 and 8 satisfied, and the
\* fallback returned Retriever NFT
C6_Witness ==
    \E w \in Wallets :
       /\ cycle[w] = "decided"
       /\ decision[w].name = "Retriever NFT"
       /\ Holds(w, 8)
       /\ drawn[w].p8 = 70
       /\ \A i \in 1..8 : ~Fires(w, i)

\* C21: a decision off the recovery edge whose refreshed native balance is
\* below 2.0 is the low-balance faucet claim, made without any draw
C21_LowBalanceFaucet ==
    \A w \in Wallets :
       (cycle[w] = "decided" /\ RuleOf(decision[w].name) # 0
           /\ lt(balances[w].ETH, 2)) =>
          /\ decision[w].name = "Faucet Claim (Low Balance)"
          /\ decision[w].fn = "activity2_faucet"
          /\ drawn[w] = NoDraws

\* C21 witness: the scenario: native balance 1.5 and no stablecoins
C21_Witness ==
    \E w \in Wallets :
       /\ cycle[w] = "decided"
       /\ balances[w] = [EmptyBalances EXCEPT !.ETH = [whole |-> 1, frac |-> 500000]]
       /\ decision[w].name = "Faucet Claim (Low Balance)"

\* C22 as stated: a decision of the rules on balances with PathUSD > 10 and
\* AlphaUSD or BetaUSD below 5 is the swap, also with a native balance of 2.0
\* or more
C22_SwapSelected ==
    \A w \in Wallets :
       (cycle[w] = "decided" /\ RuleOf(decision[w].name) # 0
           /\ ~lt(balances[w].ETH, 2)
           /\ Holds(w, 3)) =>
          decision[w].name = "Swap PathUSD -> Stable"

\* C22 amended: with a native balance of 2.0 or more and the create-token draw
\* failed, the decision is the swap exactly when PathUSD > 10 and AlphaUSD or
\* BetaUSD is below 5, and no further draw is made
C22_SwapWhenReached ==
    \A w \in Wallets :
       (cycle[w] = "decided" /\ RuleOf(decision[w].name) # 0) =>
          /\ (/\ ~lt(balances[w].ETH, 2)
              /\ drawn[w].p2 >= 15
              /\ Holds(w, 3))
                <=> decision[w].name = "Swap PathUSD -> Stable"
          /\ decision[w].name = "Swap PathUSD -> Stable" =>
                /\ decision[w].fn = "activity5_swap"
                /\ \A i \in 4..8 : DrawOf(w, i) = NoDraw

\* C22 witness: the scenario: 20 PathUSD, 1 AlphaUSD, 1 BetaUSD
C22_Witness ==
    \E w \in Wallets :
       /\ cycle[w] = "decided"
       /\ balances[w].PathUSD = [whole |-> 20, frac |-> 0]
       /\ balances[w].AlphaUSD = [whole |-> 1, frac |-> 0]
       /\ balances[w].BetaUSD = [whole |-> 1, frac |-> 0]
       /\ decision[w].name = "Swap PathUSD -> Stable"

\* C24: in every step the created-token list keeps its entries and the stored
\* tokens stay stored; an entry is added, to both, exactly by a create-token
\* action that returned a token, and nothing is added when it returned None
C24_CreatedTokensGrow ==
    [][\A w \in Wallets :
          LET old == history[w].created_tokens
              new == history'[w].created_tokens
              created == /\ cycle[w] = "decided" /\ cycle'[w] = "idle"
                         /\ decision[w].fn = "_wrap_create_token"
                         /\ last_outcome'[w] = "ok"
          IN  /\ Len(new) >= Len(old)
              /\ SubSeq(new, 1, Len(old)) = old
              /\ store[w] \subseteq store'[w]
              /\ created => /\ Len(new) = Len(old) + 1
                            /\ new[Len(new)] \in TokenAddrs
                            /\ store'[w] = store[w] \cup {new[Len(new)]}
              /\ ~created => new = old /\ store'[w] = store[w]]_vars

\* C24 witness: a second token was appended after the first
C24_Witness ==
    \E w \in Wallets :
       /\ Len(history[w].created_tokens) = 2
       /\ \A i \in 1..2 : history[w].created_tokens[i] \in store[w]

\* C25: a decision is never the mint or burn of an own token while the
\* created-token list is empty, and never the TIP-403 policy while no token is
\* stored for the account
C25_OwnedTokenNeeded ==
    \A w \in Wallets :
       cycle[w] = "decided" =>
          /\ decision[w].name \in {"Mint Own Token", "Burn Own Token"} =>
                /\ history[w].created_tokens # <<>>
                /\ \E i \in DOMAIN history[w].created_tokens :
                      decision[w].token = history[w].created_tokens[i]
          /\ decision[w].name = "TIP-403 Policy" => store[w] # {}

\* C25 witness: the policy is chosen by an agent that created nothing in this
\* session and has a token stored from an earlier one
C25_Witness ==
    \E w \in Wallets :
       /\ cycle[w] = "decided"
       /\ decision[w].name = "TIP-403 Policy"
       /\ history[w].created_tokens = <<>>
       /\ store[w] # {}

\* C27: a decision that goes past the low-balance rule has all four balances
\* as the chain returned them in this decision's refresh; the low-balance rule
\* itself reads the native balance of this refresh, or the 0 that a failed
\* refresh sets in this decision
C27_FreshSnapshot ==
    \A w \in Wallets :
       (cycle[w] = "decided" /\ RuleOf(decision[w].name) # 0) =>
          LET f == refresh[w]
          IN  /\ balances[w].ETH = IF f.fail_at = 0 THEN from_wei(f.chain.ETH) ELSE Zero
              /\ RuleOf(decision[w].name) >= 2 =>
                    /\ f.fail_at = 0
                    /\ balances[w].PathUSD = from_units(f.chain.PathUSD)
                    /\ balances[w].AlphaUSD = from_units(f.chain.AlphaUSD)
                    /\ balances[w].BetaUSD = from_units(f.chain.BetaUSD)

\* C27 witness: a swap decided, in a cycle after the first, on the balances
\* read in that cycle
C27_Witness ==
    \E w \in Wallets :
       /\ cycle[w] = "decided"
       /\ decision[w].name = "Swap PathUSD -> Stable"
       /\ last_outcome[w] # "none"
       /\ refresh[w].chain.PathUSD = 2000000000

\* the action that the flag, the balances, the created and stored tokens and
\* the draws of a decision determine
Selected(w) ==
    LET d == drawn[w]
        r == IF refresh[w].flag THEN 0
             ELSE IF \E i \in 1..8 : Fires(w, i)
                  THEN CHOOSE i \in 1..8 : Fires(w, i) /\ \A j \in 1..(i - 1) : ~Fires(w, j)
                  ELSE 9
        names == <<"Faucet Claim (Low Balance)", "Deploy New Token",
                   "Swap PathUSD -> Stable", "Infinity Name Register", "Add Liquidity",
                   "TIP-403 Policy", "Analytics & Stats">>
    IN  CASE r = 0 -> Action("Faucet Claim (Recovery)", "activity2_faucet")
          [] r \in 1..7 -> Action(names[r], FnOf(names[r]))
          [] r = 8 -> IF d.is_mint < 60
                      THEN [name |-> "Mint Own Token", fn |-> "activity8_mint_tokens",
                            token |-> history[w].created_tokens[d.pick]]
                      ELSE [name |-> "Burn Own Token", fn |-> "activity9_burn_tokens",
                            token |-> history[w].created_tokens[d.pick]]
          [] OTHER -> options[d.pick]

C29_LiquidityPair ==
    \A w \in Wallets :
       loc[w].act = "add_liquidity" =>
          /\ loc[w].token \in TOKENS /\ loc[w].token2 \in TOKENS
          /\ loc[w].token # loc[w].token2
          /\ loc[w].amount \in {u * 10^6 : u \in 5..10}
          /\ sent[w].fn \in {"-", "approve", "mintWithValidatorToken"}
          /\ sent[w].fn = "approve" =>
                /\ sent[w].to = loc[w].token
                /\ sent[w].to # loc[w].token2
                /\ sent[w].spender = "FEE_MANAGER"
          /\ sent[w].fn = "mintWithValidatorToken" =>
                /\ sent[w].tokenIn = loc[w].token
                /\ sent[w].tokenOut = loc[w].token2
                /\ sent[w].amount = loc[w].amount

\* C29 witness: a deposit of 10 units with BetaUSD as validator token, sent
\* after the approval of BetaUSD was confirmed
C29_Witness ==
    \E w \in Wallets :
       /\ sent[w].fn = "mintWithValidatorToken"
       /\ sent[w].tokenIn = "BetaUSD"
       /\ sent[w].amount = 10000000
       /\ run[w].approve = "confirmed"
       /\ <<"BetaUSD", "FEE_MANAGER">> \in approved[w]

\* C30: whenever the mint of the mint recipe is broadcast the account holds
\* the issuer role of the token: the check found it, or the grant of this run
\* was confirmed; after a grant that was not confirmed no mint is broadcast
C30_GrantBeforeMint ==
    \A w \in Wallets :
       (run[w].act = "mint" /\ sent[w].fn = "mint") =>
          /\ run[w].grant \in {"none", "confirmed"}
          /\ <<sent[w].to, "ISSUER_ROLE">> \in roles[w]

\* C23: a receipt without a log that decodes as the creation event makes
\* create-token return None, and in a sweep in which create-token returned
\* None neither mint, burn nor grant role is called
C23_NoTokenNoBonus ==
    /\ \A n \in 0..MaxLogs : token_of_receipt([i \in 1..n |-> None]) = None
    /\ \A w \in Wallets :
          sweep[w].returned = None =>
             /\ sweep[w].bonus = 0
             /\ sweep[w].created_token = None

\* C23 witness: a sweep that ran to its end, create-token having returned None
C23_Witness ==
    \E w \in Wallets :
       /\ sweep[w].returned = None
       /\ sweep[w].j = Len(activities) + 1
       /\ sweep[w].bonus = 0

\* C26: the order a wallet's activities run in is the list returned by the one
\* call of shuffle_array made before the first of them: it holds every entry
\* of the catalogue exactly once, the activities done so far are its first
\* entries in its order, and the catalogue passed in is as it was
C26_ShuffledOnce ==
    \A w \in Wallets :
       sweep[w].j >= 1 =>
          /\ sweep[w].shuffles = 1
          /\ sweep[w].activities = activities
          /\ Len(sweep[w].shuffled) = Len(activities)
          /\ \A i \in DOMAIN activities :
                Cardinality({k \in DOMAIN sweep[w].shuffled :
                                sweep[w].shuffled[k] = activities[i]}) = 1
          /\ sweep[w].done = SubSeq(sweep[w].shuffled, 1, sweep[w].j - 1)

\* C26 witness: a finished sweep that ran the catalogue in reversed order
C26_Witness ==
    \E w \in Wallets :
       /\ sweep[w].j = Len(activities) + 1
       /\ sweep[w].done # activities
       /\ sweep[w].done[1] = 17
       /\ sweep[w].done[Len(activities)] = 1

\* C31: in a sweep in which create-token returned a token address, mint, burn
\* and grant role are called for that token before the next activity
C31_BonusAfterCreation ==
    \A w \in Wallets :
       sweep[w].returned \notin {"-", None} =>
          /\ sweep[w].created_token = sweep[w].returned
          /\ sweep[w].bonus = 3

\* C32: create-token returns the token of the first log of the receipt that
\* decodes, and None exactly when the transaction failed or no log decodes
C32_FirstDecodedLog ==
    \A w \in Wallets :
       sweep[w].returned # "-" =>
          /\ sweep[w].returned = None <=>
                \/ sweep[w].failed
                \/ \A i \in DOMAIN sweep[w].logs : sweep[w].logs[i] = None
          /\ sweep[w].returned # None =>
                \E i \in DOMAIN sweep[w].logs :
                   /\ sweep[w].logs[i] = sweep[w].returned
                   /\ \A k \in 1..(i - 1) : sweep[w].logs[k] = None

\* C32 witness: the first log does not decode and the second names the token
C32_Witness ==
    \E w \in Wallets :
       /\ sweep[w].logs = <<None, "T1">>
       /\ sweep[w].returned = "T1"

\* C36: the activities a wallet has attempted are the first entries of its
\* shuffled order, one attempt each, whatever they returned or raised; a
\* finished wallet attempted them all; the wallets finished are the first of
\* the selected indices, which ascend, and at the end they are all of them
C36_SweepCompletes ==
    /\ \A w \in Wallets :
          /\ sweep[w].j >= 1 =>
                /\ sweep[w].j <= Len(sweep[w].shuffled) + 1
                /\ sweep[w].done = SubSeq(sweep[w].shuffled, 1, sweep[w].j - 1)
          /\ (\E k \in DOMAIN auto.order : auto.order[k] = w - 1) =>
                /\ sweep[w].done = sweep[w].shuffled
                /\ Len(sweep[w].done) = Len(activities)
                /\ sweep[w].shuffles = 1
          /\ (\A k \in DOMAIN auto.selected_indices :
                 auto.selected_indices[k] # w - 1) => sweep[w] = NoSweep
    /\ Len(auto.order) <= Len(auto.selected_indices)
    /\ auto.order = SubSeq(auto.selected_indices, 1, Len(auto.order))
    /\ \A k \in 1..(Len(auto.selected_indices) - 1) :
          auto.selected_indices[k] < auto.selected_indices[k + 1]
    /\ auto.pc = "finished" => auto.order = auto.selected_indices

\* C36 witness: the run is over for two wallets; the first activity of wallet
\* 1 was create-token, whose await raised, and all of its activities were
\* attempted all the same
C36_Witness ==
    /\ auto.pc = "finished"
    /\ Len(auto.order) >= 2
    /\ \E w \in Wallets :
          /\ auto.order[1] = w - 1
          /\ sweep[w].shuffled[1] = 4
          /\ sweep[w].done = sweep[w].shuffled

\* C39: the list parse_wallet_selection returns ascends strictly, holds
\* indices of 0..total_wallets-1 only, each of them named by a part that is in
\* bounds, and holds every index such a part names; a range that is out of
\* bounds or reversed names nothing
C39_SelectionParsed ==
    LET parts == auto.selection.parts
        indices == auto.selected_indices
        InBounds(part) ==
           \/ part.kind = "single" /\ part.start >= 1 /\ part.start <= TotalWallets
           \/ /\ part.kind = "range"
              /\ part.start >= 1 /\ part.end <= TotalWallets /\ part.start <= part.end
        Names(part, n) == InBounds(part) /\ part.start <= n + 1 /\ n + 1 <= part.end
    IN  (auto.pc \in {"wallets", "finished", "no_wallets"} /\ ~auto.selection.all) =>
           /\ \A k \in 1..(Len(indices) - 1) : indices[k] < indices[k + 1]
           /\ \A k \in DOMAIN indices :
                 /\ indices[k] \in 0..(TotalWallets - 1)
                 /\ \E p \in DOMAIN parts : Names(parts[p], indices[k])
           /\ \A p \in DOMAIN parts : \A n \in 0..(TotalWallets - 1) :
                 Names(parts[p], n) => \E k \in DOMAIN indices : indices[k] = n

\* C39 witness: a range that ends past the last wallet, then the number 2:
\* the list is the index 1 alone
C39_Witness ==
    /\ auto.pc = "wallets"
    /\ auto.selection.parts =
          <<[kind |-> "range", start |-> 2, end |-> TotalWallets + 1],
            [kind |-> "single", start |-> 2, end |-> 2]>>
    /\ auto.selected_indices = <<1>>

\* C34: a decision whose refresh failed leaves the native balance at 0, the
\* token balances read before the failure at the values read, the others at
\* the values they had before the decision, and returns the low-balance
\* faucet claim
C34_FailedRefreshFaucet ==
    [][\A w \in Wallets :
          (cycle[w] = "idle" /\ cycle'[w] = "decided" /\ refresh'[w].fail_at # 0) =>
             /\ balances'[w].ETH = Zero
             /\ balances'[w].PathUSD =
                   IF refresh'[w].fail_at > 2
                   THEN from_units(refresh'[w].chain.PathUSD) ELSE balances[w].PathUSD
             /\ balances'[w].AlphaUSD =
                   IF refresh'[w].fail_at > 3
                   THEN from_units(refresh'[w].chain.AlphaUSD) ELSE balances[w].AlphaUSD
             /\ balances'[w].BetaUSD =
                   IF refresh'[w].fail_at > 4
                   THEN from_units(refresh'[w].chain.BetaUSD) ELSE balances[w].BetaUSD
             /\ decision'[w].name = "Faucet Claim (Low Balance)"
             /\ decision'[w].fn = "activity2_faucet"]_vars

\* C34 witness: the third read fails with 2.0 native and 2000 PathUSD on the
\* chain: the faucet claim is decided, PathUSD is the value read and AlphaUSD
\* the nonzero value of an earlier cycle
C34_Witness ==
    \E w \in Wallets :
       /\ cycle[w] = "decided"
       /\ refresh[w].fail_at = 3
       /\ refresh[w].chain.ETH = 2000000
       /\ refresh[w].chain.PathUSD = 2000000000
       /\ decision[w].name = "Faucet Claim (Low Balance)"
       /\ balances[w].ETH = Zero
       /\ balances[w].PathUSD = from_units(2000000000)
       /\ balances[w].AlphaUSD # Zero
       /\ balances[w].AlphaUSD # from_units(refresh[w].chain.AlphaUSD)

\* C35: a decision made with the recovery flag set returns the recovery faucet
\* claim, clears the flag and reads no balance; a decision made with the flag
\* clear is not the recovery claim and refreshes the balances; the flag is
\* clear after every decision
C35_RecoveryOneShot ==
    [][\A w \in Wallets :
          (cycle[w] = "idle" /\ cycle'[w] = "decided") =>
             /\ ~should_recover_faucet'[w]
             /\ IF should_recover_faucet[w]
                THEN /\ decision'[w].name = "Faucet Claim (Recovery)"
                     /\ balances'[w] = balances[w]
                     /\ refresh'[w] = [NoRefresh EXCEPT !.flag = TRUE]
                ELSE /\ decision'[w].name # "Faucet Claim (Recovery)"
                     /\ ~refresh'[w].flag
                     /\ refresh'[w].chain \in ChainBalances
                     /\ balances'[w].ETH \in {Zero, from_wei(refresh'[w].chain.ETH)}]_vars

\* C35 witness: the recovery claim decided with the flag cleared, no balance
\* read, and the balances of the cycle before still in place
C35_Witness ==
    \E w \in Wallets :
       /\ cycle[w] = "decided"
       /\ decision[w].name = "Faucet Claim (Recovery)"
       /\ ~should_recover_faucet[w]
       /\ refresh[w] = [NoRefresh EXCEPT !.flag = TRUE]
       /\ balances[w].PathUSD = from_units(2000000000)

\* C37: remove-liquidity gives up on a picked position below the minimum
\* with "skipped: low balance" and nothing broadcast, whatever the other pairs
\* hold, and a withdrawal is broadcast only for a picked position of at least
\* the minimum
C37_PickedPairDecides ==
    \A w \in Wallets :
       /\ (pc[w] = "idle" /\ run[w].act = "remove_liquidity"
              /\ run[w].primary = "skipped" /\ run[w].seen > 0) =>
             /\ run[w].seen < MinWithdraw
             /\ result[w] = "skipped: low balance"
             /\ run[w].count = 0
             /\ sent[w] = NoTx
       /\ (run[w].act = "remove_liquidity" /\ sent[w].fn = "burn") =>
             /\ run[w].seen >= MinWithdraw
             /\ run[w].others = -1

\* C37 witness: the picked pair holds less than the minimum, another pair
\* holds more, and remove-liquidity returned the skip
C37_Witness ==
    \E w \in Wallets :
       /\ pc[w] = "idle"
       /\ run[w].act = "remove_liquidity"
       /\ result[w] = "skipped: low balance"
       /\ run[w].seen = MinWithdraw - 1
       /\ run[w].others >= MinWithdraw
       /\ sent[w] = NoTx

\* C38: mint, burn and grant-role called with None or the empty string as
\* token address have ended with None, having read nothing from the chain and
\* broadcast nothing
C38_NoTokenNoCall ==
    \A w \in Wallets :
       (run[w].act \in {"mint", "burn", "grant_role"} /\ run[w].token \in {None, ""}) =>
          /\ pc[w] = "idle"
          /\ result[w] = None
          /\ run[w].seen = -1
          /\ run[w].count = 0
          /\ run[w].grant = "none"
          /\ run[w].primary = "none"
          /\ sent[w] = NoTx

\* C38 witness: mint called with the empty string after an earlier mint had
\* been confirmed
C38_Witness ==
    \E w \in Wallets :
       /\ run[w].act = "mint"
       /\ run[w].token = ""
       /\ result[w] = None
       /\ \E t \in TokenAddrs : <<t, "ISSUER_ROLE">> \in roles[w]
       /\ minedCount[w] > StartNonce[w]

\* C33: a recipe other than mint in which a chain read, a broadcast or a wait
\* raised has ended with the failure result and has broadcast nothing after
\* that step
C33_FailureEndsRecipe ==
    \A w \in Wallets :
       LET ended == pc[w] = "idle" /\ result[w] \in {None, "False"}
           raised == {"unsent", "failed"}
       IN  /\ run[w].error # "-" => ended /\ run[w].count = 0
           /\ run[w].approve \in raised => ended /\ run[w].primary = "none"
           /\ run[w].policy \in raised => ended /\ run[w].primary = "none"
           /\ run[w].primary \in raised => ended

\* results a recipe returns for a precondition that is not met
SkipResults == {"skipped: low balance", "skipped: no lp"}

\* C11: when the quote is zero, the swap recipes send no swap and return a
\* skip result, which differs from the failure result None
C11_ZeroQuoteSkips ==
    \A w \in Wallets :
       (pc[w] = "idle" /\ run[w].act \in {"swap", "batch"}
           /\ run[w].primary = "skipped" /\ run[w].seen = 0) =>
          /\ result[w] \in SkipResults
          /\ result[w] # None

\* C12: a withdrawal of remove-liquidity is for a pair whose position read was
\* positive, and its amount lies between the minimum withdrawal and that
\* position
C12_WithdrawWithinPosition ==
    \A w \in Wallets :
       (sent[w].fn = "burn" /\ sent[w].to = "FEE_MANAGER") =>
          /\ loc[w].balance > 0
          /\ MinWithdraw <= sent[w].amount
          /\ sent[w].amount <= loc[w].balance
          /\ <<sent[w].tokenIn, sent[w].tokenOut>> \in PoolPairs
          /\ \A percent \in 20..50, below \in 0..1 :
                /\ MinWithdraw <= withdraw_amount(loc[w].balance, percent, below)
                /\ withdraw_amount(loc[w].balance, percent, below) <= loc[w].balance

\* C12 witness: 20% of a position of exactly the minimum is raised to the
\* minimum, the whole position
C12_Witness ==
    \E w \in Wallets :
       /\ pc[w] = "a12_burn_wait"
       /\ sent[w].fn = "burn"
       /\ loc[w].balance = MinWithdraw
       /\ sent[w].amount = MinWithdraw

\* C13: when the scan finds no pair with a position, remove-liquidity has
\* broadcast nothing and returns "skipped: no lp", which is not the failure
\* result
C13_NoPositionSkips ==
    \A w \in Wallets :
       (pc[w] = "idle" /\ run[w].act = "remove_liquidity"
           /\ run[w].primary = "skipped" /\ run[w].seen = 0) =>
          /\ result[w] = "skipped: no lp"
          /\ result[w] # None
          /\ run[w].count = 0
          /\ sent[w] = NoTx

\* C13 witness: remove-liquidity returned for an account without a position
C13_Witness ==
    \E w \in Wallets :
       /\ pc[w] = "idle"
       /\ run[w].act = "remove_liquidity"
       /\ run[w].seen = 0
       /\ result[w] = "skipped: no lp"

\* C14: a burn of the account's token is broadcast only after a balance read
\* of at least the fixed burn amount and burns exactly that amount; after a
\* read below it the recipe has broadcast nothing and returns a skip
C14_BurnOnlyWhenFunded ==
    \A w \in Wallets :
       /\ (sent[w].fn = "burn" /\ sent[w].to \in TokenAddrs) =>
             /\ loc[w].balance >= BurnAmount
             /\ sent[w].amount = BurnAmount
       /\ (run[w].act = "burn" /\ run[w].seen >= 0 /\ run[w].seen < BurnAmount) =>
             /\ pc[w] = "idle"
             /\ run[w].count = 0
             /\ sent[w] = NoTx
             /\ result[w] = "skipped: low balance"

\* C14 witness: a burn sent with a balance of exactly the burn amount
C14_Witness ==
    \E w \in Wallets :
       /\ pc[w] = "a9_burn_wait"
       /\ sent[w].fn = "burn"
       /\ loc[w].balance = BurnAmount

\* C15: in a run of mint, a grant of the issuer role is built and broadcast
\* when the account lacks the role at the check, and none is when the account
\* holds it, whether or not the hasRole call could be read
C15_GrantIssuerIffAbsent ==
    \A w \in Wallets :
       (run[w].act = "mint" /\ pc[w] \in {"a8_grant_wait", "a8_mint", "a8_mint_wait"}) =>
          /\ run[w].seen = 0 => run[w].grant # "none"
          /\ run[w].seen = 1 => run[w].grant = "none"

\* C16: a run of grant-role that read the role as held broadcasts nothing; a
\* run that read it as missing builds one grantRole(PAUSE_ROLE) and, unless
\* the broadcast itself raises, broadcasts exactly that one transaction
C16_GrantRoleOnceIffMissing ==
    \A w \in Wallets :
       run[w].act = "grant_role" =>
          /\ run[w].seen = 1 =>
                /\ run[w].count = 0
                /\ run[w].primary = "noop"
                /\ sent[w] = NoTx
          /\ run[w].seen = 0 =>
                /\ run[w].primary \in {"sent", "confirmed", "failed", "unsent"}
                /\ run[w].count = IF run[w].primary = "unsent" THEN 0 ELSE 1
                /\ run[w].primary = "sent" =>
                      /\ sent[w].fn = "grantRole"
                      /\ sent[w].spender = "PAUSE_ROLE"

\* C16 witness: both cases in one history: the grant was confirmed, and a later
\* run found the role held and did nothing
C16_Witness ==
    \E w \in Wallets :
       /\ pc[w] = "idle"
       /\ run[w].act = "grant_role"
       /\ run[w].seen = 1
       /\ run[w].count = 0
       /\ minedCount[w] > StartNonce[w]

\* C17: the faucet makes at most max_retries = 3 requests; it sleeps and asks
\* again only after a retryable error on an attempt before the last; any
\* other error, and the success of a request, end the call with no further
\* request; and every call ends
C17_FaucetAttempts ==
    /\ [](\A w \in Wallets :
            run[w].act = "faucet" =>
               /\ run[w].attempts <= max_retries
               /\ pc[w] = "a2_request" =>
                     /\ run[w].attempts = loc[w].attempt
                     /\ run[w].attempts < max_retries
               /\ pc[w] = "a2_sleep" =>
                     /\ is_retryable(run[w].error)
                     /\ run[w].attempts = loc[w].attempt + 1
                     /\ run[w].attempts < max_retries
               /\ pc[w] = "idle" =>
                     /\ run[w].attempts >= 1
                     /\ result[w] \in {"faucet", None}
                     /\ result[w] = "faucet" <=> run[w].primary = "confirmed"
                     /\ result[w] = None =>
                           \/ ~is_retryable(run[w].error)
                           \/ run[w].attempts = max_retries)
    /\ \A w \in Wallets :
          /\ pc[w] \in {"a2_request", "a2_sleep"} ~> pc[w] = "idle"
          /\ \A n \in 1..(max_retries - 1) :
                (pc[w] = "a2_sleep" /\ run[w].attempts = n)
                   ~> (run[w].act = "faucet" /\ run[w].attempts = n + 1)

\* C17 witness: a terminal error on the second attempt, after one retry
C17_Witness ==
    \E w \in Wallets :
       /\ pc[w] = "idle"
       /\ run[w].act = "faucet"
       /\ run[w].attempts = 2
       /\ result[w] = None
       /\ ~is_retryable(run[w].error)

C20_SubmitRetriesTransient ==
    \A w \in Wallets :
       (pc[w] = "idle" /\ run[w].act = "send_tokens" /\ run[w].primary = "unsent") =>
          /\ result[w] = None
          /\ run[w].count = 0
          /\ is_retryable(run[w].error) => run[w].attempts > 1

\* C19: a finished recipe returns the failure value only for a failed run, a
\* skip value only for a run that chose not to send, and a transaction hash
\* only for a confirmed run; and the runner reports only a confirmed run as done
C19_ThreeOutcomes ==
    \A w \in Wallets :
       (pc[w] = "idle" /\ run[w].act # "-") =>
          /\ run[w].primary \in {"skipped", "noop"} <=> result[w] \in SkipResults
          /\ run[w].primary = "confirmed" <=> result[w] = "tx_hash"
          /\ run[w].primary \notin {"skipped", "noop", "confirmed"} <=> result[w] = None
          /\ report(result[w]) = "Done" => run[w].primary = "confirmed"

\* C7: while a recipe with the approve-if-needed step runs, an approval was
\* broadcast exactly when the allowance read is below the required amount, and
\* the approval broadcast is for 2**256 - 1 to the recipe's spender
C7_ApproveIffInsufficient ==
    \A w \in Wallets :
       (pc[w] # "idle" /\ loc[w].act \in ApproveRecipes) =>
          /\ run[w].approve \in {"sent", "confirmed"} <=> loc[w].allowance < loc[w].amount
          /\ run[w].approve = "none" <=> loc[w].allowance >= loc[w].amount
          /\ sent[w].fn = "approve" =>
                /\ sent[w].amount = max_uint256
                /\ sent[w].to = loc[w].token
                /\ sent[w].spender = loc[w].spender

\* C7 witness: infinity-name register broadcast its approval
C7_Witness ==
    \E w \in Wallets :
       /\ pc[w] = "a15_approve_wait"
       /\ sent[w].fn = "approve"
       /\ loc[w].allowance < loc[w].amount

\* C8: once an account saw its approval for a token and spender confirmed, no
\* later allowance step of that account broadcasts an approval for the pair
C8_ApproveIdempotent ==
    [][\A w \in Wallets :
          ~ /\ sent'[w] # sent[w]
            /\ sent'[w].fn = "approve"
            /\ <<sent'[w].to, sent'[w].spender>> \in approved[w]]_vars

\* C8 witness: the allowance step ran again for an approved pair and went on
\* without an approval
C8_Witness ==
    \E w \in Wallets :
       /\ pc[w] = "a17_quote"
       /\ <<loc[w].token, loc[w].spender>> \in approved[w]
       /\ run[w].approve = "none"

\* C9: when the approval could not be sent or its wait failed, the recipe has
\* returned its failure result and broadcast no primary transaction
C9_FailedApprovalBlocks ==
    \A w \in Wallets :
       run[w].approve \in {"unsent", "failed"} =>
          /\ pc[w] = "idle"
          /\ run[w].primary = "none"
          /\ result[w] \in {None, "False"}

\* C9 witness: an approval was broadcast and its wait failed
C9_Witness ==
    \E w \in Wallets : run[w].approve = "failed" /\ pc[w] = "idle"

\* C10: a swap transaction carries the floor of 99% of the quote read in the
\* run: 100 * min_out <= 99 * quote < 100 * (min_out + 1), so min_out <= quote
C10_MinOutFloor ==
    \A w \in Wallets :
       sent[w].fn = "swapExactAmountIn" =>
          /\ loc[w].quote > 0
          /\ 100 * sent[w].min_out <= 99 * loc[w].quote
          /\ 99 * loc[w].quote < 100 * (sent[w].min_out + 1)
          /\ sent[w].min_out <= loc[w].quote

\* C10 witness: batch operations broadcast a swap for a quote of 101
C10_Witness ==
    \E w \in Wallets :
       /\ pc[w] = "a17_swap_wait"
       /\ sent[w].fn = "swapExactAmountIn"
       /\ loc[w].quote = 101
       /\ sent[w].min_out = 99

====
